---- MODULE Spec2Model ----
(***************************************************************************)
(* Durable execution engine: the Step primitive, its Context (sequence     *)
(* counters, claim mutex), the SQLite-backed Store and the errgroup join   *)
(* helper, as a state machine.                                             *)
(*                                                                         *)
(* Strings of the program (step ids, step keys, JSON payloads, error       *)
(* texts, timestamps) are sequences of one-character strings, so that      *)
(* formatting and parsing are computed and not assumed.  A nullable SQL    *)
(* column is a sequence of length <= 1: NULL is <<>>, a value t is <<t>>.  *)
(***************************************************************************)
EXTENDS Integers, Sequences, FiniteSets, TLC

VARIABLES
    cfg,      \* the runs of this scenario: what each workflow procedure does
    store,    \* the steps table: <<workflow_id, step_key>> -> row
    now,      \* wall clock
    faults,   \* back-end errors injected so far
    ctx,      \* per run: the Context and the workflow procedure's position
    task,     \* per run, per parallel task: the Step call in progress
    storeMu,  \* Store.mu: the caller holding it, 0 when free
    call      \* per direct caller of the Store: its store call in progress

vars == <<cfg, store, now, faults, ctx, task, storeMu, call>>

-----------------------------------------------------------------------------
(* Bounds of the model *)

\* Contexts (runs) that may be active on one workflow id at once
MaxRuns == 2
\* back-end errors injected into store operations
MaxFaults == 1
\* length of a sequential workflow's list of step ids
OpsLen == 3
\* parallel tasks of one run
NumPar == 2
\* distinct results a step function may return
NumVals == 2
\* the last reading of the wall clock
MaxClock == 3
\* the zombie timeout of the Contexts that set one, in clock units
ZombieAge == 2
\* the length of the raw step ids drawn for the normalisation
MaxIdLen == 2

-----------------------------------------------------------------------------
(* Text *)

DigitChars == <<"0", "1", "2", "3", "4", "5", "6", "7", "8", "9">>
LowerChars == <<"a", "b", "c", "d", "e", "f", "g", "h", "i", "j", "k", "l", "m",
                "n", "o", "p", "q", "r", "s", "t", "u", "v", "w", "x", "y", "z">>
UpperChars == <<"A", "B", "C", "D", "E", "F", "G", "H", "I", "J", "K", "L", "M",
                "N", "O", "P", "Q", "R", "S", "T", "U", "V", "W", "X", "Y", "Z">>
SpaceChars == {" ", "\t", "\n", "\r"}

Range(s) == {s[i] : i \in DOMAIN s}

IndexOf(s, c) == CHOOSE i \in DOMAIN s : s[i] = c

IsDigit(c) == c \in Range(DigitChars)

\* strconv / fmt %d of a non-negative integer
RECURSIVE FormatInt(_)
FormatInt(n) ==
    IF n < 10 THEN <<DigitChars[n + 1]>>
    ELSE FormatInt(n \div 10) \o <<DigitChars[(n % 10) + 1]>>

\* fmt %06d of a non-negative integer: zero-padded to at least 6 digits
RECURSIVE PadLeft(_, _)
PadLeft(s, width) == IF Len(s) >= width THEN s ELSE PadLeft(<<"0">> \o s, width)

Format06d(n) == PadLeft(FormatInt(n), 6)

\* the integer a string of decimal digits denotes
RECURSIVE ParseInt(_)
ParseInt(s) ==
    IF Len(s) = 0 THEN 0
    ELSE 10 * ParseInt(SubSeq(s, 1, Len(s) - 1)) + (IndexOf(DigitChars, s[Len(s)]) - 1)

IsDigits(s) == Len(s) > 0 /\ \A i \in DOMAIN s : IsDigit(s[i])

\* strings.ToLower, on one character
ToLower(c) == IF c \in Range(UpperChars) THEN LowerChars[IndexOf(UpperChars, c)] ELSE c

\* strings.TrimSpace / strings.Trim(s, cutset)
RECURSIVE TrimLeft(_, _)
TrimLeft(s, cut) ==
    IF Len(s) > 0 /\ s[1] \in cut THEN TrimLeft(Tail(s), cut) ELSE s

RECURSIVE TrimRight(_, _)
TrimRight(s, cut) ==
    IF Len(s) > 0 /\ s[Len(s)] \in cut THEN TrimRight(SubSeq(s, 1, Len(s) - 1), cut) ELSE s

Trim(s, cut) == TrimRight(TrimLeft(s, cut), cut)

TrimSpace(s) == Trim(s, SpaceChars)

\* strings.ReplaceAll(s, old, new) for single characters
ReplaceAll(s, old, new) == [i \in DOMAIN s |-> IF s[i] = old THEN new ELSE s[i]]

-----------------------------------------------------------------------------
(* Nullable columns *)

NULL == <<>>
Some(t) == <<t>>
IsNull(x) == Len(x) = 0

\* asString: a NULL column reads back as the empty string
asString(x) == IF IsNull(x) THEN <<>> ELSE x[1]

-----------------------------------------------------------------------------
(* Character codes (byte order of the back-end's text comparison) *)

OtherCodes ==
    [c \in {" ", "#", "'", "-", ".", "/", "[", "]", "_"} |->
        CASE c = " " -> 32 [] c = "#" -> 35 [] c = "'" -> 39 [] c = "-" -> 45
          [] c = "." -> 46 [] c = "/" -> 47 [] c = "[" -> 91 [] c = "]" -> 93
          [] c = "_" -> 95]

CharCode(c) ==
    IF c \in Range(DigitChars) THEN 47 + IndexOf(DigitChars, c)
    ELSE IF c \in Range(UpperChars) THEN 64 + IndexOf(UpperChars, c)
    ELSE IF c \in Range(LowerChars) THEN 96 + IndexOf(LowerChars, c)
    ELSE IF c \in DOMAIN OtherCodes THEN OtherCodes[c]
    ELSE 9

\* a < b as byte strings
RECURSIVE TextLess(_, _)
TextLess(a, b) ==
    IF Len(b) = 0 THEN FALSE
    ELSE IF Len(a) = 0 THEN TRUE
    ELSE IF a[1] = b[1] THEN TextLess(Tail(a), Tail(b))
    ELSE CharCode(a[1]) < CharCode(b[1])

-----------------------------------------------------------------------------
(* encoding/json on the step's result type, and time formatting *)

\* A result of a step function: pub is what json.Marshal writes, priv an
\* auxiliary field it does not write, bad a value json.Marshal rejects.
Value(pub, priv, bad) == [pub |-> pub, priv |-> priv, bad |-> bad]

ZeroValue == Value(0, 0, FALSE)

Marshal(v) ==
    IF v.bad THEN [ok |-> FALSE, json |-> <<>>]
    ELSE [ok |-> TRUE, json |-> FormatInt(v.pub)]

\* faulty variant: the cached text is decoded into a type it does not fit
Unmarshal_Rejects(text) == [ok |-> FALSE, val |-> ZeroValue]

\* faulty variant: a decode error is swallowed and the zero value returned
Unmarshal_Lenient(text) ==
    IF IsDigits(text) /\ (Len(text) = 1 \/ text[1] # "0")
    THEN [ok |-> TRUE, val |-> Value(ParseInt(text), 0, FALSE)]
    ELSE [ok |-> TRUE, val |-> ZeroValue]

Unmarshal(text) ==
    IF IsDigits(text) /\ (Len(text) = 1 \/ text[1] # "0")
    THEN [ok |-> TRUE, val |-> Value(ParseInt(text), 0, FALSE)]
    ELSE [ok |-> FALSE, val |-> ZeroValue]

\* time.Format(time.RFC3339Nano) of clock value t, and time.Parse of it
FormatTime(t) == <<"T">> \o FormatInt(t)

ParseTime(text) ==
    IF Len(text) > 1 /\ text[1] = "T" /\ IsDigits(Tail(text))
    THEN [ok |-> TRUE, t |-> ParseInt(Tail(text))]
    ELSE [ok |-> FALSE, t |-> 0]

-----------------------------------------------------------------------------
(* Context: step identity *)

\* runtime.Caller(3) seen from autoStepID: autoStepID <- resolveStepID <-
\* nextStepRef <- Step, so the frame is Step's own call of nextStepRef.
callerFile == <<"s", "t", "e", "p">>
callerLine == 30
callerFunc == <<"e", "n", "g", "i", "n", "e", ".", "S", "t", "e", "p", "[", ".", ".", ".", "]">>

autoStepID ==
    callerFile \o <<"_">> \o FormatInt(callerLine) \o <<"_">> \o ReplaceAll(callerFunc, ".", "_")

KeptChars == Range(LowerChars) \cup Range(DigitChars) \cup {"_", "-", "."}

\* faulty variant: the id is not lowered
sanitizeRune_KeepsCase(c) == IF c \in KeptChars \cup Range(UpperChars) THEN c ELSE "_"

\* the loop over the runes of the lowered id: kept, or written as "_"
sanitizeRune(c) == IF ToLower(c) \in KeptChars THEN ToLower(c) ELSE "_"

\* (clean is bound to the trimmed text, computed once)
resolveStepID(id) ==
    LET trimmed == TrimSpace(id)
        given   == IF Len(trimmed) = 0 THEN autoStepID ELSE trimmed
        mapped  == [i \in DOMAIN given |-> sanitizeRune(given[i])]
        clean   == CHOOSE c \in {Trim(b, {"_"}) : b \in {mapped}} : TRUE
    IN  IF Len(clean) = 0 THEN <<"s", "t", "e", "p">> ELSE clean

\* faulty variant: "%s#%d", the sequence not padded
StepKeyOf_Unpadded(stepID, seq) == stepID \o <<"#">> \o FormatInt(seq)

StepKeyOf(stepID, seq) == stepID \o <<"#">> \o Format06d(seq)

CounterOf(counters, stepID) == IF stepID \in DOMAIN counters THEN counters[stepID] ELSE 0

\* faulty variant: the incremented counter is not stored back
nextStepRef_NoIncrement(counters, id) ==
    LET issue(stepID) ==
            LET seq == CounterOf(counters, stepID) + 1
            IN  [counters |-> counters,
                 ref      |-> [StepID |-> stepID, Sequence |-> seq,
                               StepKey |-> StepKeyOf(stepID, seq)]]
    IN  CHOOSE n \in {issue(stepID) : stepID \in {resolveStepID(id)}} : TRUE

\* nextStepRef, under seqMu: the counters after the call and the stepRef
\* issued (stepID is bound to the resolved id, computed once)
nextStepRef(counters, id) ==
    LET issue(stepID) ==
            LET seq == CounterOf(counters, stepID) + 1
            IN  [counters |-> (stepID :> seq) @@ counters,
                 ref      |-> [StepID |-> stepID, Sequence |-> seq,
                               StepKey |-> StepKeyOf(stepID, seq)]]
    IN  CHOOSE n \in {issue(stepID) : stepID \in {resolveStepID(id)}} : TRUE

NoRef == [StepID |-> <<>>, Sequence |-> 0, StepKey |-> <<>>]

-----------------------------------------------------------------------------
(* Store: the steps table *)

statusRunning == "running"
statusCompleted == "completed"
statusFailed == "failed"

ZeroRecord ==
    [workflow_id |-> "", step_key |-> <<>>, step_id |-> <<>>, sequence |-> 0,
     status |-> "", output_json |-> <<>>, error_text |-> <<>>, run_id |-> 0,
     started_at |-> <<>>, updated_at |-> <<>>]

parseStepRecord(row) ==
    [row EXCEPT !.output_json = asString(@), !.error_text = asString(@)]

\* faulty variant: WHERE step_key=? only, whatever the workflow_id
GetStep_AnyWorkflow(s, workflowID, stepKey) ==
    IF \E k \in DOMAIN s : k[2] = stepKey
    THEN [found |-> TRUE,
          rec |-> parseStepRecord(s[CHOOSE k \in DOMAIN s : k[2] = stepKey])]
    ELSE [found |-> FALSE, rec |-> ZeroRecord]

GetStep(s, workflowID, stepKey) ==
    IF <<workflowID, stepKey>> \in DOMAIN s
    THEN [found |-> TRUE, rec |-> parseStepRecord(s[<<workflowID, stepKey>>])]
    ELSE [found |-> FALSE, rec |-> ZeroRecord]

\* faulty variant: the conflict update has no WHERE clause
UpsertRunning_Unguarded(s, workflowID, ref, runID, t) ==
    LET k == <<workflowID, ref.StepKey>>
    IN  IF k \notin DOMAIN s
        THEN (k :> [workflow_id |-> workflowID, step_key |-> ref.StepKey,
                    step_id |-> ref.StepID, sequence |-> ref.Sequence,
                    status |-> statusRunning, output_json |-> NULL, error_text |-> NULL,
                    run_id |-> runID, started_at |-> FormatTime(t),
                    updated_at |-> FormatTime(t)]) @@ s
        ELSE [s EXCEPT ![k] = [@ EXCEPT !.status = statusRunning, !.output_json = NULL,
                                        !.error_text = NULL, !.run_id = runID,
                                        !.started_at = FormatTime(t),
                                        !.updated_at = FormatTime(t)]]

\* faulty variant: the conflict update does not clear error_text
UpsertRunning_KeepsError(s, workflowID, ref, runID, t) ==
    LET k == <<workflowID, ref.StepKey>>
    IN  IF k \notin DOMAIN s
        THEN (k :> [workflow_id |-> workflowID, step_key |-> ref.StepKey,
                    step_id |-> ref.StepID, sequence |-> ref.Sequence,
                    status |-> statusRunning, output_json |-> NULL, error_text |-> NULL,
                    run_id |-> runID, started_at |-> FormatTime(t),
                    updated_at |-> FormatTime(t)]) @@ s
        ELSE IF s[k].status # statusCompleted
        THEN [s EXCEPT ![k] = [@ EXCEPT !.status = statusRunning, !.output_json = NULL,
                                        !.run_id = runID,
                                        !.started_at = FormatTime(t),
                                        !.updated_at = FormatTime(t)]]
        ELSE s

\* INSERT ... ON CONFLICT(workflow_id, step_key) DO UPDATE ... WHERE steps.status <> 'completed'
UpsertRunning(s, workflowID, ref, runID, t) ==
    LET k == <<workflowID, ref.StepKey>>
    IN  IF k \notin DOMAIN s
        THEN (k :> [workflow_id |-> workflowID, step_key |-> ref.StepKey,
                    step_id |-> ref.StepID, sequence |-> ref.Sequence,
                    status |-> statusRunning, output_json |-> NULL, error_text |-> NULL,
                    run_id |-> runID, started_at |-> FormatTime(t),
                    updated_at |-> FormatTime(t)]) @@ s
        ELSE IF s[k].status # statusCompleted
        THEN [s EXCEPT ![k] = [@ EXCEPT !.status = statusRunning, !.output_json = NULL,
                                        !.error_text = NULL, !.run_id = runID,
                                        !.started_at = FormatTime(t),
                                        !.updated_at = FormatTime(t)]]
        ELSE s

\* faulty variant: error_text is left as it was
MarkCompleted_KeepsError(s, workflowID, stepKey, runID, outputJSON, t) ==
    LET k == <<workflowID, stepKey>>
    IN  IF k \in DOMAIN s
        THEN [s EXCEPT ![k] = [@ EXCEPT !.status = statusCompleted,
                                        !.output_json = Some(outputJSON),
                                        !.run_id = runID,
                                        !.updated_at = FormatTime(t)]]
        ELSE s

\* UPDATE steps SET status='completed', output_json=?, error_text=NULL, run_id=?, updated_at=?
MarkCompleted(s, workflowID, stepKey, runID, outputJSON, t) ==
    LET k == <<workflowID, stepKey>>
    IN  IF k \in DOMAIN s
        THEN [s EXCEPT ![k] = [@ EXCEPT !.status = statusCompleted,
                                        !.output_json = Some(outputJSON),
                                        !.error_text = NULL, !.run_id = runID,
                                        !.updated_at = FormatTime(t)]]
        ELSE s

\* faulty variant: the row keeps the run_id it had
MarkFailed_KeepsRunID(s, workflowID, stepKey, runID, errText, t) ==
    LET k == <<workflowID, stepKey>>
    IN  IF k \in DOMAIN s
        THEN [s EXCEPT ![k] = [@ EXCEPT !.status = statusFailed,
                                        !.error_text = Some(errText),
                                        !.updated_at = FormatTime(t)]]
        ELSE s

\* UPDATE steps SET status='failed', error_text=?, run_id=?, updated_at=?
MarkFailed(s, workflowID, stepKey, runID, errText, t) ==
    LET k == <<workflowID, stepKey>>
    IN  IF k \in DOMAIN s
        THEN [s EXCEPT ![k] = [@ EXCEPT !.status = statusFailed,
                                        !.error_text = Some(errText), !.run_id = runID,
                                        !.updated_at = FormatTime(t)]]
        ELSE s

\* SELECT ... WHERE workflow_id=? ORDER BY step_key
RECURSIVE SortKeys(_)
SortKeys(keys) ==
    IF keys = {} THEN <<>>
    ELSE LET least == CHOOSE k \in keys : \A o \in keys \ {k} : TextLess(k, o)
         IN  <<least>> \o SortKeys(keys \ {least})

ListSteps(s, workflowID) ==
    LET keys  == {k[2] : k \in {x \in DOMAIN s : x[1] = workflowID}}
        order == SortKeys(keys)
    IN  [i \in DOMAIN order |-> parseStepRecord(s[<<workflowID, order[i]>>])]

-----------------------------------------------------------------------------
(* Step: the claim *)

\* faulty variant: the age compared the wrong way round
canTakeOverZombie_Inverted(zombieTimeout, record, t) ==
    IF zombieTimeout <= 0 THEN TRUE
    ELSE LET updated == ParseTime(record.updated_at)
         IN  IF ~updated.ok THEN TRUE ELSE t - updated.t <= zombieTimeout

\* faulty variant: no shortcut for a timeout of 0, and the age compared with >
canTakeOverZombie_NeedsAge(zombieTimeout, record, t) ==
    LET updated == ParseTime(record.updated_at)
    IN  IF ~updated.ok THEN TRUE ELSE t - updated.t > zombieTimeout

\* faulty variant: the age compared with >
canTakeOverZombie_Exclusive(zombieTimeout, record, t) ==
    IF zombieTimeout <= 0 THEN TRUE
    ELSE LET updated == ParseTime(record.updated_at)
         IN  IF ~updated.ok THEN TRUE ELSE t - updated.t > zombieTimeout

canTakeOverZombie(zombieTimeout, record, t) ==
    IF zombieTimeout <= 0 THEN TRUE
    ELSE LET updated == ParseTime(record.updated_at)
         IN  IF ~updated.ok THEN TRUE ELSE t - updated.t >= zombieTimeout

\* faulty variant: a row running under another run_id is never taken over
claimBranch_NoTakeover(runID, zombieTimeout, got, t) ==
    IF ~got.found THEN "insert"
    ELSE IF got.rec.status = statusCompleted THEN "cached"
    ELSE IF got.rec.status = statusFailed THEN "retry"
    ELSE IF got.rec.status = statusRunning
    THEN IF got.rec.run_id = runID THEN "reentrant" ELSE "blocked"
    ELSE "reset"

\* faulty variant: a completed row is not recognised and is claimed again
claimBranch_IgnoresCompleted(runID, zombieTimeout, got, t) ==
    IF ~got.found THEN "insert"
    ELSE IF got.rec.status = statusFailed THEN "retry"
    ELSE IF got.rec.status = statusRunning
    THEN IF got.rec.run_id = runID THEN "reentrant"
         ELSE IF ~canTakeOverZombie(zombieTimeout, got.rec, t) THEN "blocked"
         ELSE "takeover"
    ELSE "reset"

\* faulty variant: a row running under the caller's own run_id is treated
\* like one running under another
claimBranch_NoReentrancyCheck(runID, zombieTimeout, got, t) ==
    IF ~got.found THEN "insert"
    ELSE IF got.rec.status = statusCompleted THEN "cached"
    ELSE IF got.rec.status = statusFailed THEN "retry"
    ELSE IF got.rec.status = statusRunning
    THEN IF ~canTakeOverZombie(zombieTimeout, got.rec, t) THEN "blocked"
         ELSE "takeover"
    ELSE "reset"

\* claimStep after GetStep has answered: what the claim does with the answer
claimBranch(runID, zombieTimeout, got, t) ==
    IF ~got.found THEN "insert"
    ELSE IF got.rec.status = statusCompleted THEN "cached"
    ELSE IF got.rec.status = statusFailed THEN "retry"
    ELSE IF got.rec.status = statusRunning
    THEN IF got.rec.run_id = runID THEN "reentrant"
         ELSE IF ~canTakeOverZombie(zombieTimeout, got.rec, t) THEN "blocked"
         ELSE "takeover"
    ELSE "reset"

-----------------------------------------------------------------------------
(* Workflow procedures *)

\* What a step function's call produces: a result, or an error with a message
OkOut(v) == [ok |-> TRUE, val |-> v, msg |-> <<>>]
ErrOut(m) == [ok |-> FALSE, val |-> ZeroValue, msg |-> m]
NoOut == [ok |-> FALSE, val |-> ZeroValue, msg |-> <<"-">>]

\* One Step call of a workflow: the id passed and what its fn may do
\* nil: "" for a call with a Context and a fn, "ctx" for Step(nil, id, fn),
\* "fn" for Step(ctx, id, nil)
Op(id, outs) == [id |-> id, outs |-> outs, nil |-> ""]

NilOp(id, outs, nil) == [Op(id, outs) EXCEPT !.nil = nil]

\* A run: NewContext(wf, store).WithZombieTimeout(zt), then the phases in
\* order, each a group of parallel tasks joined by Wait, each task a list of
\* Step calls made one after the other, returning at the first error.
\* stop > 0: the task returns errIntentionalStop after call number stop.
\* mortal: the process may die during the run.  faulty: back-end errors may
\* hit the run's store operations.
Run(wf, zt, phases, stop, mortal, faulty) ==
    [wf |-> wf, zt |-> zt, phases |-> phases, stop |-> stop,
     mortal |-> mortal, faulty |-> faulty,
     args |-> [via |-> "NewContext", store |-> TRUE, fn |-> TRUE], as |-> 0,
     nested |-> FALSE]

\* The run whose caller assigns ctx.RunID = id (the run id of an earlier
\* Context) after NewContext; id 0: the run keeps the id newRunID drew.
RunAs(run, id) == [run EXCEPT !.as = id]

\* The run entered through via ("NewContext": the caller builds the Context,
\* "RunWorkflow": RunWorkflow(store, wf, fn) does), with a store that is nil
\* (store = FALSE) or not, and for RunWorkflow a fn that is nil (fn = FALSE)
\* or not.
RunVia(run, via, hasStore, hasFn) ==
    [run EXCEPT !.args = [via |-> via, store |-> hasStore, fn |-> hasFn]]

\* The run whose first task makes one Step call and whose other tasks are
\* started from inside the fn of that call: they call Step on the same
\* Context while the fn runs, and the fn returns when they have returned.
RunNested(run, nested) == [run EXCEPT !.nested = nested]

Runs == DOMAIN cfg.runs

RECURSIVE MaxOf(_)
MaxOf(S) == IF S = {} THEN 0
            ELSE LET x == CHOOSE y \in S : TRUE
                     m == MaxOf(S \ {x})
                 IN  IF x > m THEN x ELSE m

WidthOf(run) == MaxOf({Len(run.phases[p]) : p \in DOMAIN run.phases})

Slots(r) == 1 .. WidthOf(cfg.runs[r])

\* the tasks of run r's current phase
Active(r) == 1 .. Len(cfg.runs[r].phases[ctx[r].phase])

OpsOf(r, t) == cfg.runs[r].phases[ctx[r].phase][t]

CurOp(r, t) == OpsOf(r, t)[task[r][t].i]

\* faulty variant: every Context draws the same run id
newRunID_Same(r) == 1

\* newRunID: distinct for distinct Contexts
newRunID(r) == r

Finished(r) == ctx[r].status \in {"returned", "failed", "crashed"}

-----------------------------------------------------------------------------
(* State *)

IdleTask(pc) ==
    [pc |-> pc, i |-> 1, ref |-> NoRef, read |-> "", branch |-> "", out |-> NoOut,
     hist |-> <<>>]

\* The record of one finished Step call: the key it was issued, the status
\* its claim read ("absent": no row, "": the read failed), the branch the
\* claim took, the output_json it read, whether it invoked fn and what fn
\* produced, and what Step returned.
CallRec(ref, read, branch, cached, invoked, out, ok, val, err) ==
    [key |-> ref.StepKey, stepID |-> ref.StepID, seq |-> ref.Sequence,
     read |-> read, branch |-> branch, cached |-> cached, invoked |-> invoked,
     out |-> out, ok |-> ok, val |-> val, err |-> err]

ReadStatus(got) == IF got.found THEN got.rec.status ELSE "absent"

InitWith(c) ==
    /\ cfg = c
    /\ store = <<>>
    /\ now = 0
    /\ faults = 0
    /\ ctx = [r \in DOMAIN c.runs |->
                [status |-> "new", RunID |-> 0, ZombieTimeout |-> 0,
                 stepCounters |-> <<>>, claimMu |-> 0, phase |-> 1, gerr |-> "", gtask |-> 0]]
    /\ task = [r \in DOMAIN c.runs |-> [t \in 1 .. WidthOf(c.runs[r]) |-> IdleTask("off")]]
    /\ storeMu = 0
    /\ call = <<>>

\* the task slots when run r enters phase p: the phase's tasks start, each
\* slot keeps the record of the calls it has finished
EnterPhase(r, p) ==
    [t \in Slots(r) |->
        IF t <= Len(cfg.runs[r].phases[p])
        THEN [IdleTask("idle") EXCEPT !.hist = task[r][t].hist]
        ELSE [task[r][t] EXCEPT !.pc = "off"]]

\* RunWorkflow / NewContext: a run starts.  Runs start in order; in a serial
\* scenario a run starts only when the runs before it are over.
\* RunWorkflow, lines 125-133: the error its checks return, "" for none
runWorkflowError(run) ==
    IF run.args.via # "RunWorkflow" THEN ""
    ELSE IF ~run.args.store THEN "nil store"
    ELSE IF run.wf = "" THEN "workflow id is required"
    ELSE IF ~run.args.fn THEN "workflow function is nil"
    ELSE ""

\* NewContext, called by RunWorkflow after its checks or by the caller
StartRun(r) ==
    /\ ctx[r].status = "new"
    /\ \A q \in Runs : q < r => ctx[q].status # "new"
    /\ cfg.serial => \A q \in Runs : q < r => Finished(q)
    /\ IF runWorkflowError(cfg.runs[r]) # ""
       THEN /\ ctx' = [ctx EXCEPT ![r].status = "failed",
                                  ![r].gerr = runWorkflowError(cfg.runs[r])]
            /\ UNCHANGED task
       ELSE /\ ctx' = [ctx EXCEPT ![r] = [@ EXCEPT !.status = "active",
                                                  !.RunID = IF cfg.runs[r].as # 0
                                                            THEN cfg.runs[r].as
                                                            ELSE newRunID(r),
                                                  !.ZombieTimeout = cfg.runs[r].zt,
                                                  !.stepCounters = <<>>, !.phase = 1]]
            /\ task' = [task EXCEPT ![r] = EnterPhase(r, 1)]
    /\ UNCHANGED <<cfg, store, now, faults, storeMu, call>>

\* the task after its Step call returned rec: it goes on to its next call, or
\* returns (an error, the intentional stop, or the end of its list)
AfterReturn(r, t, rec) ==
    LET tk   == task[r][t]
        stop == rec.ok /\ cfg.runs[r].stop = tk.i
        fin  == ~rec.ok \/ stop \/ tk.i = Len(OpsOf(r, t))
    IN  [tk EXCEPT !.pc = IF fin THEN "done" ELSE "idle",
                   !.i = IF fin THEN @ ELSE @ + 1,
                   !.ref = NoRef, !.read = "", !.branch = "", !.out = NoOut,
                   !.hist = Append(@, rec)]

\* the error the task function returns to errgroup.Go after rec, "" for nil
TaskError(r, t, rec) ==
    IF ~rec.ok THEN rec.err
    ELSE IF cfg.runs[r].stop = task[r][t].i THEN "intentional stop"
    ELSE ""

\* errgroup.Go's wrapper: errOnce keeps the first non-nil error
\* faulty variant: a later error replaces the one recorded
errOnce_LastWins(g, e) == IF e.err # "" THEN e ELSE g

\* g, e: an error ("" for nil) and the task that returned it (0 for none)
errOnce(g, e) == IF e.err # "" /\ g.err = "" THEN e ELSE g

\* the group's err after task t has returned rec
GroupErr(r, t, rec) ==
    errOnce([err |-> ctx[r].gerr, task |-> ctx[r].gtask],
            [err |-> TaskError(r, t, rec),
             task |-> IF TaskError(r, t, rec) = "" THEN 0 ELSE t])

\* Step returns rec to task t of run r; claimMu is left held by mu (0: free;
\* ctx[r].claimMu: as it is, for a return outside the claim)
Return(r, t, rec, mu) ==
    /\ task' = [task EXCEPT ![r][t] = AfterReturn(r, t, rec)]
    /\ ctx' = [ctx EXCEPT ![r].claimMu = mu,
                          ![r].gerr = GroupErr(r, t, rec).err,
                          ![r].gtask = GroupErr(r, t, rec).task]

ErrRec(tk, invoked, err) ==
    CallRec(tk.ref, tk.read, tk.branch, <<>>, invoked, tk.out, FALSE, ZeroValue, err)

\* faulty variant: the nil fn is not rejected
stepArgError_AcceptsNilFn(run, op) ==
    IF op.nil = "ctx" THEN "nil durable context"
    ELSE IF ~run.args.store THEN "nil durable store"
    ELSE ""

\* Step, lines 20-28: the error its checks return, "" for none
stepArgError(run, op) ==
    IF op.nil = "ctx" THEN "nil durable context"
    ELSE IF ~run.args.store THEN "nil durable store"
    ELSE IF op.nil = "fn" THEN "step function is nil"
    ELSE ""

\* task t of run r makes its Step calls from inside the fn of task 1's call
Inner(r, t) == cfg.runs[r].nested /\ t # 1

\* Step, lines 20-30: the three checks, then ref := ctx.nextStepRef(id)
CallStep(r, t) ==
    /\ ctx[r].status = "active"
    /\ task[r][t].pc = "idle"
    /\ Inner(r, t) => task[r][1].pc = "exec"
    /\ IF stepArgError(cfg.runs[r], CurOp(r, t)) # ""
       THEN Return(r, t, ErrRec(task[r][t], FALSE,
                                stepArgError(cfg.runs[r], CurOp(r, t))),
                   ctx[r].claimMu)
       ELSE \E n \in {nextStepRef(ctx[r].stepCounters, CurOp(r, t).id)} :
               /\ ctx' = [ctx EXCEPT ![r].stepCounters = n.counters]
               /\ task' = [task EXCEPT ![r][t].pc = "claim", ![r][t].ref = n.ref]
    /\ UNCHANGED <<cfg, store, now, faults, storeMu, call>>

\* faulty variant: Lock does not wait
lockFree_Always(m) == TRUE

\* sync.Mutex: Lock returns when the mutex is free
lockFree(m) == m = 0

\* faulty variant: without the deferred Unlock, the returns before
\* UpsertRunning leave claimMu locked
ClaimGet_LeaksClaimMu(r, t) ==
    /\ ctx[r].status = "active"
    /\ task[r][t].pc = "claim"
    /\ lockFree(ctx[r].claimMu)
    /\ lockFree(storeMu)
    /\ LET tk     == task[r][t]
           got    == GetStep(store, cfg.runs[r].wf, tk.ref.StepKey)
           branch == claimBranch(ctx[r].RunID, ctx[r].ZombieTimeout, got, now)
           dec    == Unmarshal(got.rec.output_json)
           rec(ok, val, err) ==
               CallRec(tk.ref, ReadStatus(got), branch, got.rec.output_json, FALSE, NoOut,
                       ok, val, err)
       IN  IF branch = "cached"
           THEN Return(r, t,
                    IF dec.ok THEN rec(TRUE, dec.val, "")
                    ELSE rec(FALSE, ZeroValue, "decode cached step result"), t)
           ELSE IF branch = "reentrant"
           THEN Return(r, t, rec(FALSE, ZeroValue, "already running in this execution"), t)
           ELSE IF branch = "blocked"
           THEN Return(r, t, rec(FALSE, ZeroValue, "still running under run_id"), t)
           ELSE /\ task' = [task EXCEPT ![r][t].pc = "upsert", ![r][t].branch = branch,
                                        ![r][t].read = ReadStatus(got)]
                /\ ctx' = [ctx EXCEPT ![r].claimMu = t]
    /\ UNCHANGED <<cfg, store, now, faults, storeMu, call>>

\* claimStep up to the answer of GetStep, under claimMu and, inside GetStep,
\* the store mutex; on a cache hit and on the two refusals the claim is over
\* and Step returns
ClaimGet(r, t) ==
    /\ ctx[r].status = "active"
    /\ task[r][t].pc = "claim"
    /\ lockFree(ctx[r].claimMu)
    /\ lockFree(storeMu)
    /\ LET tk     == task[r][t]
           got    == GetStep(store, cfg.runs[r].wf, tk.ref.StepKey)
           branch == claimBranch(ctx[r].RunID, ctx[r].ZombieTimeout, got, now)
           dec    == Unmarshal(got.rec.output_json)
           rec(ok, val, err) ==
               CallRec(tk.ref, ReadStatus(got), branch, got.rec.output_json, FALSE, NoOut,
                       ok, val, err)
       IN  IF branch = "cached"
           THEN Return(r, t,
                    IF dec.ok THEN rec(TRUE, dec.val, "")
                    ELSE rec(FALSE, ZeroValue, "decode cached step result"), 0)
           ELSE IF branch = "reentrant"
           THEN Return(r, t, rec(FALSE, ZeroValue, "already running in this execution"), 0)
           ELSE IF branch = "blocked"
           THEN Return(r, t, rec(FALSE, ZeroValue, "still running under run_id"), 0)
           ELSE /\ task' = [task EXCEPT ![r][t].pc = "upsert", ![r][t].branch = branch,
                                        ![r][t].read = ReadStatus(got)]
                /\ ctx' = [ctx EXCEPT ![r].claimMu = t]
    /\ UNCHANGED <<cfg, store, now, faults, storeMu, call>>

\* faulty variant: claimMu stays held while fn runs
ClaimUpsert_HoldsThroughFn(r, t) ==
    /\ ctx[r].status = "active"
    /\ task[r][t].pc = "upsert"
    /\ store' = UpsertRunning(store, cfg.runs[r].wf, task[r][t].ref, ctx[r].RunID, now)
    /\ task' = [task EXCEPT ![r][t].pc = "exec"]
    /\ UNCHANGED <<cfg, now, faults, ctx, storeMu, call>>

\* claimStep: UpsertRunning for an absent, failed, zombie or unknown row
ClaimUpsert(r, t) ==
    /\ ctx[r].status = "active"
    /\ task[r][t].pc = "upsert"
    /\ lockFree(storeMu)
    /\ store' = UpsertRunning(store, cfg.runs[r].wf, task[r][t].ref, ctx[r].RunID, now)
    /\ task' = [task EXCEPT ![r][t].pc = "exec"]
    /\ ctx' = [ctx EXCEPT ![r].claimMu = 0]
    /\ UNCHANGED <<cfg, now, faults, storeMu, call>>

\* Step, line 44: result, err := fn()
InvokeFn(r, t) ==
    /\ ctx[r].status = "active"
    /\ task[r][t].pc = "exec"
    /\ cfg.runs[r].nested /\ t = 1 =>
           \A u \in Active(r) : Inner(r, u) => task[r][u].pc = "done"
    /\ \E o \in CurOp(r, t).outs :
          task' = [task EXCEPT ![r][t].pc = "commit", ![r][t].out = o]
    /\ UNCHANGED <<cfg, store, now, faults, ctx, storeMu, call>>

marshalErrorText(msg) ==
    <<"m", "a", "r", "s", "h", "a", "l", " ", "e", "r", "r", "o", "r", ":", " ">> \o msg

unsupportedType == <<"u", "n", "s", "u", "p", "p", "o", "r", "t", "e", "d">>

\* Step, lines 45-59: MarkFailed after an error of fn or of json.Marshal,
\* MarkCompleted otherwise; the store write succeeds
Commit(r, t) ==
    /\ ctx[r].status = "active"
    /\ task[r][t].pc = "commit"
    /\ lockFree(storeMu)
    /\ LET tk      == task[r][t]
           wf      == cfg.runs[r].wf
           payload == Marshal(tk.out.val)
       IN  IF ~tk.out.ok
           THEN /\ store' = MarkFailed(store, wf, tk.ref.StepKey, ctx[r].RunID, tk.out.msg, now)
                /\ Return(r, t, ErrRec(tk, TRUE, "step failed"), ctx[r].claimMu)
           ELSE IF ~payload.ok
           THEN /\ store' = MarkFailed(store, wf, tk.ref.StepKey, ctx[r].RunID,
                                       marshalErrorText(unsupportedType), now)
                /\ Return(r, t, ErrRec(tk, TRUE, "marshal step result"), ctx[r].claimMu)
           ELSE /\ store' = MarkCompleted(store, wf, tk.ref.StepKey, ctx[r].RunID,
                                          payload.json, now)
                /\ Return(r, t, CallRec(tk.ref, tk.read, tk.branch, <<>>, TRUE, tk.out,
                                        TRUE, tk.out.val, ""), ctx[r].claimMu)
    /\ UNCHANGED <<cfg, now, faults, storeMu, call>>

\* A back-end error (not busy, or busy beyond the retry bound) in a store
\* operation of a faulty run: the operation changes nothing and returns it.
CanFault(r) == cfg.runs[r].faulty /\ faults < MaxFaults

\* faulty variant: the failed claim gives its sequence number back
ClaimGetFails_ReleasesSequence(r, t) ==
    /\ ctx[r].status = "active"
    /\ task[r][t].pc = "claim"
    /\ lockFree(ctx[r].claimMu)
    /\ CanFault(r)
    /\ lockFree(storeMu)
    /\ faults' = faults + 1
    /\ task' = [task EXCEPT ![r][t] =
                  AfterReturn(r, t, ErrRec([task[r][t] EXCEPT !.branch = "load"], FALSE,
                                           "load step state"))]
    /\ ctx' = [ctx EXCEPT ![r].gerr = "load step state", ![r].gtask = t,
                          ![r].stepCounters =
                              [@ EXCEPT ![task[r][t].ref.StepID] = @ - 1]]
    /\ UNCHANGED <<cfg, store, now, storeMu, call>>

\* GetStep fails: "load step state for ..."
ClaimGetFails(r, t) ==
    /\ ctx[r].status = "active"
    /\ task[r][t].pc = "claim"
    /\ lockFree(ctx[r].claimMu)
    /\ CanFault(r)
    /\ lockFree(storeMu)
    /\ faults' = faults + 1
    /\ Return(r, t, ErrRec([task[r][t] EXCEPT !.branch = "load"], FALSE, "load step state"), 0)
    /\ UNCHANGED <<cfg, store, now, storeMu, call>>

\* UpsertRunning fails: "insert running step ..." and the like
ClaimUpsertFails(r, t) ==
    /\ ctx[r].status = "active"
    /\ task[r][t].pc = "upsert"
    /\ CanFault(r)
    /\ lockFree(storeMu)
    /\ faults' = faults + 1
    /\ Return(r, t, ErrRec(task[r][t], FALSE, "upsert running step"), 0)
    /\ UNCHANGED <<cfg, store, now, storeMu, call>>

\* faulty variant: the error of MarkCompleted is dropped and the result returned
CommitFails_ReturnsResult(r, t) ==
    /\ ctx[r].status = "active"
    /\ task[r][t].pc = "commit"
    /\ cfg.runs[r].faulty /\ faults < MaxFaults
    /\ faults' = faults + 1
    /\ LET tk == task[r][t]
       IN  /\ task' = [task EXCEPT ![r][t] =
                         [tk EXCEPT !.pc = "done", !.ref = NoRef,
                                    !.hist = Append(@, [key |-> tk.ref.StepKey,
                                                        stepID |-> tk.ref.StepID,
                                                        seq |-> tk.ref.Sequence,
                                                        read |-> tk.read, branch |-> tk.branch,
                                                        cached |-> <<>>, invoked |-> TRUE,
                                                        out |-> tk.out, ok |-> tk.out.ok,
                                                        val |-> tk.out.val, err |-> ""])]]
           /\ UNCHANGED ctx
    /\ UNCHANGED <<cfg, store, now, storeMu, call>>

\* faulty variant: the error of MarkFailed is returned in place of fn's
errorAfterFailedWrite_SurfacesStoreError(out) ==
    IF ~out.ok THEN "mark failed"
    ELSE IF ~Marshal(out.val).ok THEN "mark failed"
    ELSE "completion checkpoint failed"

\* Step, lines 44-58: what Step returns when the write after fn has failed:
\* the result of MarkFailed is discarded, the error of MarkCompleted wrapped
errorAfterFailedWrite(out) ==
    IF ~out.ok THEN "step failed"
    ELSE IF ~Marshal(out.val).ok THEN "marshal step result"
    ELSE "completion checkpoint failed"

\* MarkFailed fails (ignored by Step) or MarkCompleted fails ("executed but
\* completion checkpoint failed (possible zombie step)")
CommitFails(r, t) ==
    /\ ctx[r].status = "active"
    /\ task[r][t].pc = "commit"
    /\ CanFault(r)
    /\ lockFree(storeMu)
    /\ faults' = faults + 1
    /\ Return(r, t, ErrRec(task[r][t], TRUE, errorAfterFailedWrite(task[r][t].out)),
              ctx[r].claimMu)
    /\ UNCHANGED <<cfg, store, now, storeMu, call>>

\* errgroup.Wait returns once every task of the phase has returned; the
\* workflow procedure returns its error, or goes on to the next phase
Wait(r) ==
    /\ ctx[r].status = "active"
    /\ \A t \in Active(r) : task[r][t].pc = "done"
    /\ IF ctx[r].gerr # ""
       THEN /\ ctx' = [ctx EXCEPT ![r].status = "failed"]
            /\ UNCHANGED task
       ELSE IF ctx[r].phase < Len(cfg.runs[r].phases)
       THEN /\ ctx' = [ctx EXCEPT ![r].phase = @ + 1]
            /\ task' = [task EXCEPT ![r] = EnterPhase(r, ctx[r].phase + 1)]
       ELSE /\ ctx' = [ctx EXCEPT ![r].status = "returned"]
            /\ UNCHANGED task
    /\ UNCHANGED <<cfg, store, now, faults, storeMu, call>>

\* the process dies (os.Exit in MaybeCrash, or a kill) during the run: its
\* Context and its tasks are gone, the rows it wrote stay
Crash(r) ==
    /\ ctx[r].status = "active"
    /\ cfg.runs[r].mortal
    /\ ctx' = [ctx EXCEPT ![r] = [@ EXCEPT !.status = "crashed", !.stepCounters = <<>>,
                                          !.claimMu = 0, !.phase = 1, !.gerr = "",
                                          !.gtask = 0]]
    /\ task' = [task EXCEPT ![r] = [t \in Slots(r) |-> IdleTask("off")]]
    /\ UNCHANGED <<cfg, store, now, faults, storeMu, call>>

\* time passes (time.Now in the store's writes, time.Since in canTakeOverZombie)
Tick ==
    /\ now < MaxClock
    /\ now' = now + 1
    /\ UNCHANGED <<cfg, store, faults, ctx, task, storeMu, call>>

DoStartRun == \E r \in Runs : StartRun(r)
DoWait == \E r \in Runs : Wait(r)
DoCallStep == \E r \in Runs : \E t \in Slots(r) : CallStep(r, t)
DoClaimGet == \E r \in Runs : \E t \in Slots(r) : ClaimGet(r, t)
DoClaimUpsert == \E r \in Runs : \E t \in Slots(r) : ClaimUpsert(r, t)
DoInvokeFn == \E r \in Runs : \E t \in Slots(r) : InvokeFn(r, t)
DoCommit == \E r \in Runs : \E t \in Slots(r) : Commit(r, t)
DoClaimGetFails == \E r \in Runs : \E t \in Slots(r) : ClaimGetFails(r, t)
DoClaimUpsertFails == \E r \in Runs : \E t \in Slots(r) : ClaimUpsertFails(r, t)
DoCommitFails == \E r \in Runs : \E t \in Slots(r) : CommitFails(r, t)
DoCrash == \E r \in Runs : Crash(r)

StepActions ==
    \/ DoStartRun
    \/ DoWait
    \/ DoCallStep
    \/ DoClaimGet
    \/ DoClaimUpsert
    \/ DoInvokeFn
    \/ DoCommit

FaultActions ==
    \/ DoClaimGetFails
    \/ DoClaimUpsertFails
    \/ DoCommitFails

CrashActions == DoCrash

-----------------------------------------------------------------------------
(* Scenario: several runs at once on one workflow id, one step each *)

\* results a step function may return; priv is lost by json.Marshal
Vals == {Value(n, 1, FALSE) : n \in 1 .. NumVals}

\* fn may return any of these results, one json.Marshal rejects, an error,
\* or an error whose message is empty
AnyOuts ==
    {OkOut(v) : v \in Vals}
        \cup {OkOut(Value(0, 0, TRUE)), ErrOut(<<"e">>), ErrOut(<<>>)}

RaceCfg ==
    [serial |-> FALSE,
     runs   |-> [r \in 1 .. MaxRuns |->
                    Run("w1", 0, << << <<Op(<<"S">>, AnyOuts)>> >> >>, 0, FALSE, TRUE)]]

Init == InitWith(RaceCfg)

Next == StepActions \/ FaultActions

Spec == Init /\ [][Next]_vars

-----------------------------------------------------------------------------
(* What has happened so far *)

\* the finished Step calls of run r
CallsOf(r) == UNION {Range(task[r][t].hist) : t \in Slots(r)}

\* the runs on workflow id wf
RunsOn(wf) == {r \in Runs : cfg.runs[r].wf = wf}

\* the task slots <<r, t>> of the runs in rs
SlotsOf(rs) == UNION {{<<r, t>> : t \in Slots(r)} : r \in rs}

\* how many times the runs in rs have invoked fn for row k = <<wf, step_key>>:
\* in the calls that have returned, and in those between fn and the commit
FnCalls(rs, k) ==
    LET on   == SlotsOf(rs \cap RunsOn(k[1]))
        done == UNION {{<<x, j>> : j \in {i \in DOMAIN task[x[1]][x[2]].hist :
                                            /\ task[x[1]][x[2]].hist[i].key = k[2]
                                            /\ task[x[1]][x[2]].hist[i].invoked}} : x \in on}
        busy == {x \in on : /\ task[x[1]][x[2]].pc = "commit"
                            /\ task[x[1]][x[2]].ref.StepKey = k[2]}
    IN  Cardinality(done) + Cardinality(busy)

\* the results fn has returned for row k, as the Step calls reported them
FnResults(k) ==
    {h.out.val : h \in {c \in UNION {CallsOf(r) : r \in RunsOn(k[1])} :
                            c.key = k[2] /\ c.invoked /\ c.out.ok}}

RowKeys == DOMAIN store

-----------------------------------------------------------------------------
(* Properties of the row states *)

\* C2 (as claimed): a row that is completed stays completed, under any
\* interleaving of Step calls of any number of runs on the workflow id.
C2_CompletedIsTerminal ==
    [][\A k \in RowKeys :
          store[k].status = statusCompleted =>
              k \in DOMAIN store' /\ store'[k].status = statusCompleted]_vars

\* C3 (as claimed): once a row is completed its output_json never changes.
C3_OutputNeverChanges ==
    [][\A k \in RowKeys :
          store[k].status = statusCompleted =>
              k \in DOMAIN store' /\ store'[k].output_json = store[k].output_json]_vars

\* C9: every completed row has a non-null output_json, which is the
\* serialization of a result fn returned for that step, and a null error_text.
C9_CompletedRowShape ==
    \A k \in RowKeys :
        store[k].status = statusCompleted =>
            /\ ~IsNull(store[k].output_json)
            /\ IsNull(store[k].error_text)
            /\ \E v \in FnResults(k) :
                  Marshal(v).ok /\ Marshal(v).json = store[k].output_json[1]

\* C9's case: a row that was failed, with its error text, is then completed
\* by the run that had lost it to a takeover
C9_Witness ==
    \E k \in RowKeys :
        /\ store[k].status = statusCompleted
        /\ store[k].run_id = 1
        /\ \E c \in CallsOf(2) : c.key = k[2] /\ c.invoked /\ ~c.out.ok

\* C10 (as claimed): every failed row has a null output_json and a non-empty
\* error_text.
C10_FailedRowShape ==
    \A k \in RowKeys :
        store[k].status = statusFailed =>
            /\ IsNull(store[k].output_json)
            /\ ~IsNull(store[k].error_text)
            /\ Len(store[k].error_text[1]) > 0

-----------------------------------------------------------------------------
(* Scenario: one sequential workflow, run again and again on one workflow id *)

\* ids a workflow passes to Step; the second has the normal form of the first
Pool == {<<"a">>, <<" ", "A">>, <<"b">>}

\* In run r the fn of call i returns a result no other run returns (as in
\* TestLoopSequenceIsStableAcrossRuns), or fails.
RerunOuts(r, i) == {OkOut(Value(10 * r + i, 1, FALSE)), ErrOut(<<"e">>)}

RerunCfg(ids) ==
    [serial |-> TRUE,
     runs   |-> [r \in 1 .. MaxRuns |->
                    Run("w1", 0,
                        << << [i \in 1 .. OpsLen |-> Op(ids[i], RerunOuts(r, i))] >> >>,
                        0, FALSE, TRUE)]]

InitRerun == \E ids \in [1 .. OpsLen -> Pool] : InitWith(RerunCfg(ids))

SpecRerun == InitRerun /\ [][StepActions]_vars

\* C1: a Step call whose claim reads its row as completed returns the decoded
\* stored output and does not invoke fn, in whatever run, and when the runs
\* so far have all returned without error each step's fn has been invoked
\* exactly once in total.
C1_Memoisation ==
    /\ \A r \in Runs : \A c \in CallsOf(r) :
          c.read = statusCompleted =>
              /\ ~c.invoked
              /\ c.ok
              /\ c.val = Unmarshal(c.cached).val
    /\ \A n \in Runs :
          (\A q \in 1 .. n : ctx[q].status = "returned") =>
              \A k \in RowKeys : FnCalls(1 .. n, k) = 1

\* C1's case: the workflow has been run twice to the end
C1_Witness ==
    /\ ctx[1].status = "returned"
    /\ ctx[2].status = "returned"
    /\ Cardinality(RowKeys) = OpsLen
    /\ \A c \in CallsOf(2) : c.read = statusCompleted

\* the key "S#n" written out, for n < 10
KeyText(stepID, n) == stepID \o <<"#", "0", "0", "0", "0", "0", DigitChars[n + 1]>>

\* the calls among the first j of ids that pass an id with the normal form of ids[j]
SameIdBefore(ids, j) ==
    {i \in 1 .. j : resolveStepID(ids[i]) = resolveStepID(ids[j])}

\* the ids run r passes to Step, one after the other
IdsOf(r) == [i \in DOMAIN cfg.runs[r].phases[1][1] |-> cfg.runs[r].phases[1][1][i].id]

\* C7: the n-th Step call with normalised id S on a Context is issued S#n,
\* whatever the store holds and whatever happened to earlier calls; two runs
\* passing the same ids are issued the same keys; and a call of a later run
\* whose counterpart in an earlier run succeeded returns that call's output
\* without invoking fn.
C7_KeyDeterminism ==
    /\ \A r \in Runs : \A j \in DOMAIN task[r][1].hist :
          task[r][1].hist[j].key =
              KeyText(resolveStepID(IdsOf(r)[j]), Cardinality(SameIdBefore(IdsOf(r), j)))
    /\ \A r \in Runs :
          task[r][1].pc \in {"claim", "upsert", "exec", "commit"} =>
              task[r][1].ref.StepKey =
                  KeyText(resolveStepID(IdsOf(r)[task[r][1].i]),
                          Cardinality(SameIdBefore(IdsOf(r), task[r][1].i)))
    /\ \A r1 \in Runs : \A r2 \in Runs : \A j \in DOMAIN task[r1][1].hist :
          (r1 < r2 /\ j \in DOMAIN task[r2][1].hist) =>
              /\ task[r2][1].hist[j].key = task[r1][1].hist[j].key
              /\ task[r1][1].hist[j].ok =>
                    /\ ~task[r2][1].hist[j].invoked
                    /\ task[r2][1].hist[j].read \in {statusCompleted, ""}
                    /\ task[r2][1].hist[j].read = statusCompleted =>
                          /\ task[r2][1].hist[j].ok
                          /\ task[r2][1].hist[j].val.pub = task[r1][1].hist[j].val.pub

\* C7's case: a rerun has answered a repeated id's second call from the cache
C7_Witness ==
    /\ Len(task[1][1].hist) = OpsLen
    /\ Len(task[2][1].hist) = OpsLen
    /\ \E j \in 2 .. OpsLen :
          /\ task[2][1].hist[j].seq = 2
          /\ task[2][1].hist[j].read = statusCompleted
          /\ task[2][1].hist[j].val.pub = 10 + j

-----------------------------------------------------------------------------
(* Scenario: the onboarding workflow, crashed and run again *)

create_record == <<"c", "r", "e", "a", "t", "e", "_", "r", "e", "c", "o", "r", "d">>
provision_laptop ==
    <<"p", "r", "o", "v", "i", "s", "i", "o", "n", "_", "l", "a", "p", "t", "o", "p">>
provision_access ==
    <<"p", "r", "o", "v", "i", "s", "i", "o", "n", "_", "a", "c", "c", "e", "s", "s">>
send_welcome_email ==
    <<"s", "e", "n", "d", "_", "w", "e", "l", "c", "o", "m", "e", "_", "e", "m", "a", "i", "l">>

\* onboarding.Run: create_record, then provision_laptop and provision_access
\* in two tasks joined by Wait, then send_welcome_email; outs[i] is what the
\* i-th service call may do
OnboardingRun(outs) ==
    << << <<Op(create_record, outs[1])>> >>,
       << <<Op(provision_laptop, outs[2])>>, <<Op(provision_access, outs[3])>> >>,
       << <<Op(send_welcome_email, outs[4])>> >> >>

\* Every run but the last may die at any point and its services may fail;
\* the last run does not die and its services succeed.  ZombieTimeout is 0.
OnboardingCfg ==
    [serial |-> TRUE,
     runs   |-> [r \in 1 .. MaxRuns |->
                    IF r < MaxRuns
                    THEN Run("w1", 0,
                             OnboardingRun([i \in 1 .. 4 |->
                                              {OkOut(Value(10 * r + i, 1, FALSE)),
                                               ErrOut(<<"e">>)}]),
                             0, TRUE, FALSE)
                    ELSE Run("w1", 0,
                             OnboardingRun([i \in 1 .. 4 |->
                                              {OkOut(Value(10 * r + i, 1, FALSE))}]),
                             0, FALSE, FALSE)]]

InitOnboarding == InitWith(OnboardingCfg)

NextOnboarding == StepActions \/ CrashActions

\* The Go scheduler runs every runnable task and the operator starts the next
\* run: some step is taken as long as one is possible.
SpecOnboarding == InitOnboarding /\ [][NextOnboarding]_vars /\ WF_vars(NextOnboarding)

AllCompleted(n) ==
    /\ Cardinality(RowKeys) = n
    /\ \A k \in RowKeys : store[k].status = statusCompleted

\* C4: whatever the earlier runs left behind when they died or failed, the
\* run after them, with zombie_timeout = 0, no crash and succeeding fns,
\* terminates without error and leaves exactly 4 rows, all completed.
C4_CrashRecovery ==
    <>[](ctx[MaxRuns].status = "returned" /\ AllCompleted(4))

\* C4's case: the first run died between a fn and its completion checkpoint,
\* and the last run took the running row over and finished the workflow
C4_Witness ==
    /\ ctx[1].status = "crashed"
    /\ ctx[MaxRuns].status = "returned"
    /\ AllCompleted(4)
    /\ \E c \in CallsOf(MaxRuns) : c.read = statusRunning /\ c.invoked /\ c.ok
    /\ \E c \in CallsOf(MaxRuns) : c.read = statusCompleted

-----------------------------------------------------------------------------
(* Scenario: a stopped run resumed, against a clean run on a fresh workflow id *)

\* deterministicOutput(idx, id) of the test's step functions, idx from 0
RECURSIVE SumCodes(_)
SumCodes(id) == IF Len(id) = 0 THEN 0 ELSE CharCode(id[1]) + SumCodes(Tail(id))

deterministicOutput(idx, id) == idx * 1000 + SumCodes(id)

\* runOpsWorkflow(ctx, ops, stopAfter), stop = stopAfter + 1 (0: never)
OpsWorkflow(wf, ids, stop) ==
    Run(wf, 0,
        << << [i \in DOMAIN ids |->
                 Op(ids[i], {OkOut(Value(deterministicOutput(i - 1, ids[i]), 1, FALSE))})] >> >>,
        stop, FALSE, FALSE)

\* run 1 stops after call number stop, run 2 resumes on the same workflow
\* id, run 3 is the uninterrupted run on a fresh workflow id
ResumeCfg(ids, stop) ==
    [serial |-> TRUE,
     runs   |-> <<OpsWorkflow("w1", ids, stop), OpsWorkflow("w1", ids, 0),
                  OpsWorkflow("w2", ids, 0)>>]

InitResume ==
    \E ids \in [1 .. OpsLen -> Pool] : \E stop \in 1 .. OpsLen :
        InitWith(ResumeCfg(ids, stop))

SpecResume == InitResume /\ [][StepActions]_vars

\* what the test compares of a row
RowView(row) ==
    [step_key |-> row.step_key, step_id |-> row.step_id, sequence |-> row.sequence,
     status |-> row.status, output_json |-> row.output_json]

ViewOf(rows) == [i \in DOMAIN rows |-> RowView(rows[i])]

\* C5: when the stopped run, the resumed run and the clean run are over, the
\* rows of the resumed workflow and of the clean one are the same list:
\* same count, same (step_key, step_id, sequence), same output_json, all
\* completed.
C5_ResumeEquivalence ==
    (\A r \in Runs : Finished(r)) =>
        /\ ctx[1].status = "failed"
        /\ ctx[2].status = "returned"
        /\ ctx[3].status = "returned"
        /\ ViewOf(ListSteps(store, "w1")) = ViewOf(ListSteps(store, "w2"))
        /\ Len(ListSteps(store, "w1")) = OpsLen
        /\ \A i \in 1 .. OpsLen : ListSteps(store, "w1")[i].status = statusCompleted

\* C5's case: the three runs are over, the resumed one having found some
\* rows completed and executed the others
C5_Witness ==
    /\ \A r \in Runs : Finished(r)
    /\ \E c \in CallsOf(2) : c.read = statusCompleted
    /\ \E c \in CallsOf(2) : c.read = "absent" /\ c.invoked
    /\ Len(ListSteps(store, "w2")) = OpsLen

-----------------------------------------------------------------------------
(* Scenario: parallel tasks of one run, one Step call each *)

\* as in TestParallelStepsAreThreadSafe, the ids the same or different
ParallelCfg(ids) ==
    [serial |-> TRUE,
     runs   |-> << Run("w1", 0,
                       << [t \in 1 .. NumPar |->
                             <<Op(ids[t], {OkOut(Value(t, 1, FALSE))})>>] >>,
                       0, FALSE, TRUE) >>]

InitParallel == \E ids \in [1 .. NumPar -> Pool] : InitWith(ParallelCfg(ids))

NextParallel == StepActions \/ FaultActions

SpecParallel == InitParallel /\ [][NextParallel]_vars

\* the keys issued to task t of run r so far
KeysIssued(r, t) ==
    {c.key : c \in Range(task[r][t].hist)}
        \cup (IF task[r][t].pc \in {"claim", "upsert", "exec", "commit"}
              THEN {task[r][t].ref.StepKey} ELSE {})

\* C6: no two Step calls of parallel tasks sharing a Context are issued the
\* same step_key, whether their ids are the same or not, and when the NumPar
\* calls have all succeeded there are exactly NumPar rows, all completed,
\* one per call.
C6_DistinctKeys ==
    /\ \A t1 \in Slots(1) : \A t2 \in Slots(1) :
          t1 # t2 => KeysIssued(1, t1) \cap KeysIssued(1, t2) = {}
    /\ ctx[1].status = "returned" =>
          /\ AllCompleted(NumPar)
          /\ RowKeys = {<<"w1", c.key>> : c \in CallsOf(1)}

\* C6's case: the parallel calls have all succeeded, two of them with the same id
C6_Witness ==
    /\ ctx[1].status = "returned"
    /\ AllCompleted(NumPar)
    /\ \E c1 \in CallsOf(1) : \E c2 \in CallsOf(1) :
          c1.stepID = c2.stepID /\ c1.seq = 1 /\ c2.seq = 2

\* the sequence values of the rows of workflow wf with step id stepID
SequencesOf(wf, stepID) ==
    {store[k].sequence : k \in {j \in RowKeys : j[1] = wf /\ store[j].step_id = stepID}}

\* C8 (as claimed): the sequence values of the rows of a workflow id and a
\* step id are exactly 1 .. K for some K, without a gap.
C8_SequencePrefix ==
    \A k \in RowKeys :
        SequencesOf(k[1], store[k].step_id) =
            1 .. Cardinality(SequencesOf(k[1], store[k].step_id))

-----------------------------------------------------------------------------
(* Scenario: a step left running by a dead run, met by later runs *)

\* Every run calls Step(ctx, "provision_access", fn) once; every run but the
\* last may die; zts[r] is the zombie timeout of run r's Context.
ZombieCfg(zts) ==
    [serial |-> TRUE,
     runs   |-> [r \in 1 .. MaxRuns |->
                    Run("w1", zts[r],
                        << << <<Op(provision_access,
                                   {OkOut(Value(r, 1, FALSE)), ErrOut(<<"e">>)})>> >> >>,
                        0, r < MaxRuns, FALSE)]]

InitZombie == \E zts \in [1 .. MaxRuns -> {0, ZombieAge}] : InitWith(ZombieCfg(zts))

NextZombie == StepActions \/ CrashActions \/ Tick

SpecZombie == InitZombie /\ [][NextZombie]_vars

\* C11: a Step call of a Context with zombie_timeout <= 0 that found its row
\* running under another run_id took the row over and invoked fn exactly
\* once, and when fn succeeded the row is completed under the new run_id
\* with fn's output.
C11_ImmediateTakeover ==
    \A r \in Runs : \A c \in CallsOf(r) :
        (cfg.runs[r].zt <= 0 /\ c.read = statusRunning /\ c.branch # "reentrant") =>
            /\ c.branch = "takeover"
            /\ c.invoked
            /\ FnCalls({r}, <<cfg.runs[r].wf, c.key>>) = 1
            /\ c.ok =>
                  LET row == store[<<cfg.runs[r].wf, c.key>>]
                  IN  /\ row.status = statusCompleted
                      /\ row.run_id = newRunID(r)
                      /\ row.output_json = Some(Marshal(c.out.val).json)

\* C11's case: the first run died with its row running, and a run with
\* zombie_timeout 0 took the row over and completed it
C11_Witness ==
    /\ ctx[1].status = "crashed"
    /\ \E r \in Runs : \E c \in CallsOf(r) :
          /\ cfg.runs[r].zt = 0
          /\ c.read = statusRunning
          /\ c.ok
          /\ store[<<"w1", c.key>>].run_id = newRunID(r)

\* task t of run r is about to read its row, which is running under another
\* run_id and younger than the run's zombie timeout
BlockedCase(r, t) ==
    /\ ctx[r].status = "active"
    /\ task[r][t].pc = "claim"
    /\ ctx[r].ZombieTimeout > 0
    /\ LET got == GetStep(store, cfg.runs[r].wf, task[r][t].ref.StepKey)
       IN  /\ got.found
           /\ got.rec.status = statusRunning
           /\ got.rec.run_id # ctx[r].RunID
           /\ ParseTime(got.rec.updated_at).ok
           /\ now - ParseTime(got.rec.updated_at).t < ctx[r].ZombieTimeout

\* C12: a Step call with zombie_timeout > 0 whose row is running under
\* another run_id and younger than the timeout returns the "still running
\* under run_id" error without invoking fn and leaves the row as it was.
C12_BlockedTakeover ==
    [][\A r \in Runs : \A t \in Slots(r) :
          (BlockedCase(r, t) /\ ctx'[r].status # "crashed" /\ task'[r][t] # task[r][t]) =>
              /\ store' = store
              /\ Len(task'[r][t].hist) = Len(task[r][t].hist) + 1
              /\ LET c == task'[r][t].hist[Len(task'[r][t].hist)]
                 IN  /\ ~c.ok
                     /\ ~c.invoked
                     /\ c.err = "still running under run_id"]_vars

\* C12's case: a run was refused a row that is still running under the dead run
C12_Witness ==
    \E r \in Runs : \E c \in CallsOf(r) :
        /\ c.branch = "blocked"
        /\ store[<<"w1", c.key>>].status = statusRunning
        /\ store[<<"w1", c.key>>].run_id # newRunID(r)

-----------------------------------------------------------------------------
(* Scenario: several runs at once on one workflow id, with zombie timeouts *)

\* Every run calls Step(ctx, "S", fn) once; zts[r] is the zombie timeout of
\* run r's Context; no run dies.
ContendCfg(zts) ==
    [serial |-> FALSE,
     runs   |-> [r \in 1 .. MaxRuns |->
                    Run("w1", zts[r],
                        << << <<Op(<<"S">>, {OkOut(Value(r, 1, FALSE)), ErrOut(<<"e">>)})>> >> >>,
                        0, FALSE, FALSE)]]

InitContend == \E zts \in [1 .. MaxRuns -> {0, ZombieAge}] : InitWith(ContendCfg(zts))

NextContend == StepActions \/ Tick

SpecContend == InitContend /\ [][NextContend]_vars

\* C13 (as claimed): a row that is running passes to another run_id, still
\* running, only when that run's takeover condition holds: its zombie
\* timeout is <= 0, or the row is at least that old, or its updated_at
\* cannot be parsed.
C13_ReclaimOnlyByTakeover ==
    [][\A k \in RowKeys :
          (/\ store[k].status = statusRunning
           /\ store'[k].status = statusRunning
           /\ store'[k].run_id # store[k].run_id) =>
              \E r \in Runs :
                  /\ ctx[r].RunID = store'[k].run_id
                  /\ canTakeOverZombie(ctx[r].ZombieTimeout, parseStepRecord(store[k]), now)]_vars

-----------------------------------------------------------------------------
(* Scenario: completed rows overwritten with a payload that does not decode *)

notJSON == <<"n", "o", "t", "-", "j", "s", "o", "n">>

\* UPDATE steps SET output_json='not-json' WHERE workflow_id=... AND step_key=...
\* run on the store from outside the engine, on a completed row
Corrupt ==
    \E k \in RowKeys :
        /\ store[k].status = statusCompleted
        /\ store[k].output_json # Some(notJSON)
        /\ store' = [store EXCEPT ![k].output_json = Some(notJSON)]
        /\ UNCHANGED <<cfg, now, faults, ctx, task, storeMu, call>>

\* Every run calls Step(ctx, "create_record", fn) OpsLen times, fn succeeding.
CorruptCfg ==
    [serial |-> TRUE,
     runs   |-> [r \in 1 .. MaxRuns |->
                    Run("w1", 0,
                        << << [i \in 1 .. OpsLen |->
                                 Op(create_record, {OkOut(Value(10 * r + i, 1, FALSE))})] >> >>,
                        0, FALSE, FALSE)]]

InitCorrupt == InitWith(CorruptCfg)

NextCorrupt == StepActions \/ Corrupt

SpecCorrupt == InitCorrupt /\ [][NextCorrupt]_vars

\* task t of run r is about to read its row, which is completed with the
\* output_json 'not-json', which is no encoding of the step's result type
CorruptCase(r, t) ==
    /\ ctx[r].status = "active"
    /\ task[r][t].pc = "claim"
    /\ LET got == GetStep(store, cfg.runs[r].wf, task[r][t].ref.StepKey)
       IN  /\ got.found
           /\ got.rec.status = statusCompleted
           /\ got.rec.output_json = notJSON

\* C14: a Step call whose row is completed with an undecodable output_json
\* returns the "decode cached step result" error, does not invoke fn, makes
\* no further call, and leaves the row completed with its payload unchanged.
C14_CorruptionDetected ==
    [][\A r \in Runs : \A t \in Slots(r) :
          (CorruptCase(r, t) /\ task'[r][t] # task[r][t]) =>
              /\ store' = store
              /\ task'[r][t].pc = "done"
              /\ Len(task'[r][t].hist) = Len(task[r][t].hist) + 1
              /\ LET c == task'[r][t].hist[Len(task'[r][t].hist)]
                 IN  /\ ~c.ok
                     /\ ~c.invoked
                     /\ c.err = "decode cached step result"]_vars

\* C14's case: a run has failed on a corrupted row, which is still completed
\* and still corrupted
C14_Witness ==
    \E r \in Runs : \E c \in CallsOf(r) :
        /\ c.err = "decode cached step result"
        /\ ctx[r].status = "failed"
        /\ store[<<"w1", c.key>>].status = statusCompleted
        /\ store[<<"w1", c.key>>].output_json = Some(notJSON)

-----------------------------------------------------------------------------
(* Failure of a claimed step *)

\* task t of run r is about to record the outcome of fn, which returned an
\* error or a result json.Marshal rejects
FailureCase(r, t) ==
    /\ ctx[r].status = "active"
    /\ task[r][t].pc = "commit"
    /\ ~task[r][t].out.ok \/ task[r][t].out.val.bad

\* C15: when fn returned an error or its result cannot be serialized, Step
\* returns a wrapped error, and when the MarkFailed write succeeds the row
\* is failed under the current run_id with the failure message as
\* error_text ("marshal error: " before a serialization failure's).
C15_ExecutionFailure ==
    [][\A r \in Runs : \A t \in Slots(r) :
          (FailureCase(r, t) /\ task'[r][t] # task[r][t]) =>
              LET tk == task[r][t]
                  c  == task'[r][t].hist[Len(task'[r][t].hist)]
                  k  == <<cfg.runs[r].wf, tk.ref.StepKey>>
              IN  /\ Len(task'[r][t].hist) = Len(tk.hist) + 1
                  /\ ~c.ok
                  /\ c.err = IF ~tk.out.ok THEN "step failed" ELSE "marshal step result"
                  /\ faults' = faults =>
                        /\ store'[k].status = statusFailed
                        /\ store'[k].run_id = ctx[r].RunID
                        /\ store'[k].error_text =
                              Some(IF ~tk.out.ok THEN tk.out.msg
                                   ELSE marshalErrorText(unsupportedType))]_vars

\* C15's case: a row is failed with a "marshal error: " text, and another
\* call has failed on an error of its fn
C15_Witness ==
    /\ \E k \in RowKeys :
          /\ store[k].status = statusFailed
          /\ store[k].error_text = Some(marshalErrorText(unsupportedType))
    /\ \E r \in Runs : \E c \in CallsOf(r) : c.err = "marshal step result"
    /\ \E r \in Runs : \E c \in CallsOf(r) : c.err = "step failed" /\ c.invoked

-----------------------------------------------------------------------------
(* Scenario: the onboarding workflow, failed and run again *)

\* The services of every run but the last may fail; those of the last run
\* succeed; no run dies.
RecoverCfg ==
    [serial |-> TRUE,
     runs   |-> [r \in 1 .. MaxRuns |->
                    Run("w1", 0,
                        OnboardingRun([i \in 1 .. 4 |->
                                         IF r < MaxRuns
                                         THEN {OkOut(Value(10 * r + i, 1, FALSE)),
                                               ErrOut(<<"e">>)}
                                         ELSE {OkOut(Value(10 * r + i, 1, FALSE))}]),
                        0, FALSE, FALSE)]]

InitRecover == InitWith(RecoverCfg)

\* Every runnable task is scheduled and the operator starts the next run.
SpecRecover == InitRecover /\ [][StepActions]_vars /\ WF_vars(StepActions)

\* the row task t of run r is working on
RowOf(r, t) == <<cfg.runs[r].wf, task[r][t].ref.StepKey>>

\* C16: a Step call that finds its row failed goes on to re-claim it; the
\* re-claim leaves the row running under the caller's run_id with output and
\* error cleared, and fn is invoked next; and in the end the last run, whose
\* fns succeed, has returned nil with all 4 rows completed.
C16_FailedRetried ==
    /\ [][\A r \in Runs : \A t \in Slots(r) :
             /\ (/\ task[r][t].pc = "claim"
                 /\ RowOf(r, t) \in RowKeys
                 /\ store[RowOf(r, t)].status = statusFailed
                 /\ task'[r][t] # task[r][t]) =>
                    /\ task'[r][t].pc = "upsert"
                    /\ task'[r][t].branch = "retry"
             /\ (/\ task[r][t].pc = "upsert"
                 /\ task[r][t].branch = "retry"
                 /\ task'[r][t] # task[r][t]) =>
                    /\ task'[r][t].pc = "exec"
                    /\ store'[RowOf(r, t)].status = statusRunning
                    /\ store'[RowOf(r, t)].run_id = ctx[r].RunID
                    /\ IsNull(store'[RowOf(r, t)].output_json)
                    /\ IsNull(store'[RowOf(r, t)].error_text)
             /\ (/\ task[r][t].pc = "exec"
                 /\ task'[r][t] # task[r][t]) =>
                    task'[r][t].pc = "commit"]_vars
    /\ <>[](ctx[MaxRuns].status = "returned"
              /\ Cardinality(RowKeys) = 4
              /\ \A k \in RowKeys : store[k].status = statusCompleted)

\* C16's case: the first run failed, and the last run found a failed row,
\* executed it again and completed the workflow
C16_Witness ==
    /\ ctx[1].status = "failed"
    /\ ctx[MaxRuns].status = "returned"
    /\ \A k \in RowKeys : store[k].status = statusCompleted
    /\ \E c \in CallsOf(MaxRuns) : c.read = statusFailed /\ c.invoked /\ c.ok

-----------------------------------------------------------------------------
(* Scenario: the completion checkpoint fails, and later runs meet the row *)

\* Every run calls Step(ctx, "S", fn) once, fn succeeding; zts[r] is the
\* zombie timeout of run r's Context; MarkCompleted may fail.
CheckpointCfg(zts) ==
    [serial |-> TRUE,
     runs   |-> [r \in 1 .. MaxRuns |->
                    Run("w1", zts[r],
                        << << <<Op(<<"S">>, {OkOut(Value(r, 1, FALSE))})>> >> >>,
                        0, FALSE, TRUE)]]

InitCheckpoint == \E zts \in [1 .. MaxRuns -> {0, ZombieAge}] : InitWith(CheckpointCfg(zts))

NextCheckpoint == StepActions \/ DoCommitFails \/ Tick

SpecCheckpoint == InitCheckpoint /\ [][NextCheckpoint]_vars

\* C17: when fn has succeeded and the MarkCompleted write fails, Step returns
\* the "completion checkpoint failed" error and the row stays running under
\* the current run_id with a null output; a Step call of a later run that
\* finds the row running takes it over and invokes fn, or (with a zombie
\* timeout > 0) returns the "still running" error without invoking fn.
C17_CheckpointFailure ==
    /\ [][\A r \in Runs : \A t \in Slots(r) :
             (/\ task[r][t].pc = "commit"
              /\ task[r][t].out.ok
              /\ faults' # faults
              /\ task'[r][t] # task[r][t]) =>
                 LET c == task'[r][t].hist[Len(task'[r][t].hist)]
                 IN  /\ Len(task'[r][t].hist) = Len(task[r][t].hist) + 1
                     /\ ~c.ok
                     /\ c.err = "completion checkpoint failed"
                     /\ store'[RowOf(r, t)].status = statusRunning
                     /\ store'[RowOf(r, t)].run_id = ctx[r].RunID
                     /\ IsNull(store'[RowOf(r, t)].output_json)]_vars
    /\ [](\A r \in Runs : \A c \in CallsOf(r) :
             c.read = statusRunning =>
                 \/ c.branch = "takeover" /\ c.invoked
                 \/ /\ c.branch = "blocked"
                    /\ cfg.runs[r].zt > 0
                    /\ ~c.invoked
                    /\ c.err = "still running under run_id")

\* C17's case: a run's completion checkpoint failed, and a later run took
\* the running row over and invoked fn again
C17_Witness ==
    \E r \in Runs : \E q \in Runs :
        /\ r < q
        /\ \E c \in CallsOf(r) : c.err = "completion checkpoint failed" /\ c.invoked
        /\ \E c \in CallsOf(q) : c.read = statusRunning /\ c.branch = "takeover" /\ c.invoked


-----------------------------------------------------------------------------
(* The join group: one run whose tasks, launched together with Go, each make
   two Step calls whose fn may succeed or fail, joined by one Wait *)

JoinID(t, i) == [j \in 1 .. t |-> "p"] \o [j \in 1 .. i |-> "q"]

JoinCfg ==
    [serial |-> TRUE,
     runs   |-> << Run("w1", 0,
                       << [t \in 1 .. NumPar |->
                             [i \in 1 .. 2 |->
                                Op(JoinID(t, i), {OkOut(Value(t, 1, FALSE)),
                                                  ErrOut(<<"e">>)})]] >>,
                       0, FALSE, FALSE) >>]

InitJoin == InitWith(JoinCfg)

SpecJoin == InitJoin /\ [][StepActions]_vars

\* task t of run r has returned a non-nil error
ReturnedError(r, t) ==
    /\ task[r][t].pc = "done"
    /\ task[r][t].hist # <<>>
    /\ ~task[r][t].hist[Len(task[r][t].hist)].ok

\* C18: Wait returns only after every task launched with Go has returned; it
\* returns nil exactly when no task returned a non-nil error; otherwise it
\* returns the error of the task whose error was recorded first: the first
\* task to return an error sets the group's error, and an error of a task
\* that fails later never replaces it.
C18_JoinGroup ==
    /\ [](\A r \in Runs :
            ctx[r].status \in {"returned", "failed"} =>
               /\ \A t \in Slots(r) : task[r][t].pc = "done"
               /\ (ctx[r].status = "returned") <=>
                     (\A t \in Slots(r) : ~ReturnedError(r, t))
               /\ ctx[r].status = "failed" =>
                     /\ ctx[r].gtask \in Slots(r)
                     /\ ReturnedError(r, ctx[r].gtask)
                     /\ ctx[r].gerr =
                          task[r][ctx[r].gtask].hist[Len(task[r][ctx[r].gtask].hist)].err)
    /\ [][\A r \in Runs : \A t \in Slots(r) :
             (~ReturnedError(r, t) /\ ReturnedError(r, t)') =>
                 IF ctx[r].gerr = ""
                 THEN /\ ctx'[r].gtask = t
                      /\ ctx'[r].gerr = task'[r][t].hist[Len(task'[r][t].hist)].err
                 ELSE /\ ctx'[r].gtask = ctx[r].gtask
                      /\ ctx'[r].gerr = ctx[r].gerr]_vars

\* C18's case: two tasks returned errors, and Wait returned the error of the
\* one that failed first
C18_Witness ==
    \E r \in Runs : \E t, u \in Slots(r) :
        /\ t # u
        /\ ctx[r].status = "failed"
        /\ ReturnedError(r, t)
        /\ ReturnedError(r, u)
        /\ ctx[r].gtask = t


-----------------------------------------------------------------------------
(* Argument checks: one run, entered through NewContext or RunWorkflow, with
   a store that may be nil, a workflow id that may be empty and a workflow
   function that may be nil; each of its parallel tasks calls Step twice
   with the same id, the first task the second time possibly with a nil
   Context or a nil fn *)

NilKinds == {"", "ctx", "fn"}

ValidateCfg(wf, via, hasStore, hasFn, kind) ==
    [serial |-> TRUE,
     runs   |-> << RunVia(Run(wf, 0,
                              << [t \in 1 .. NumPar |->
                                    << Op(<<"S">>, {OkOut(Value(t, 1, FALSE))}),
                                       NilOp(<<"S">>, {OkOut(Value(t, 1, FALSE))},
                                             IF t = 1 THEN kind ELSE "") >>] >>,
                              0, FALSE, FALSE),
                          via, hasStore, hasFn) >>]

InitValidate ==
    \E wf \in {"w1", ""} : \E via \in {"NewContext", "RunWorkflow"} :
    \E hasStore, hasFn \in BOOLEAN : \E kind \in NilKinds :
        InitWith(ValidateCfg(wf, via, hasStore, hasFn, kind))

SpecValidate == InitValidate /\ [][StepActions]_vars

\* C19: a Step call with a nil Context, a Context whose store is nil, or a
\* nil fn returns the matching error at once: the Context's sequence counters
\* and the store are unchanged and nothing was read or invoked; a RunWorkflow
\* call with a nil store, an empty workflow id or a nil fn returns the
\* matching error with no Context created (no run id drawn), no task started
\* and the store unchanged, and stays so.
C19_InputValidation ==
    /\ [][\A r \in Runs : \A t \in Slots(r) :
             (/\ ctx[r].status = "active"
              /\ task[r][t].pc = "idle"
              /\ task'[r][t] # task[r][t]
              /\ \/ CurOp(r, t).nil # ""
                 \/ ~cfg.runs[r].args.store) =>
                 LET c == task'[r][t].hist[Len(task'[r][t].hist)]
                 IN  /\ Len(task'[r][t].hist) = Len(task[r][t].hist) + 1
                     /\ task'[r][t].pc = "done"
                     /\ ~c.ok
                     /\ c.err = IF CurOp(r, t).nil = "ctx" THEN "nil durable context"
                                ELSE IF ~cfg.runs[r].args.store THEN "nil durable store"
                                ELSE "step function is nil"
                     /\ c.seq = 0
                     /\ c.read = ""
                     /\ ~c.invoked
                     /\ ctx'[r].stepCounters = ctx[r].stepCounters
                     /\ store' = store]_vars
    /\ [][\A r \in Runs :
             (/\ ctx[r].status = "new"
              /\ ctx'[r] # ctx[r]
              /\ cfg.runs[r].args.via = "RunWorkflow"
              /\ \/ ~cfg.runs[r].args.store
                 \/ cfg.runs[r].wf = ""
                 \/ ~cfg.runs[r].args.fn) =>
                 /\ ctx'[r].status = "failed"
                 /\ ctx'[r].gerr = IF ~cfg.runs[r].args.store THEN "nil store"
                                   ELSE IF cfg.runs[r].wf = ""
                                   THEN "workflow id is required"
                                   ELSE "workflow function is nil"
                 /\ ctx'[r].RunID = 0
                 /\ task' = task
                 /\ store' = store]_vars
    /\ [](\A r \in Runs :
             (/\ cfg.runs[r].args.via = "RunWorkflow"
              /\ \/ ~cfg.runs[r].args.store
                 \/ cfg.runs[r].wf = ""
                 \/ ~cfg.runs[r].args.fn) =>
                 /\ ctx[r].RunID = 0
                 /\ \A t \in Slots(r) : task[r][t].pc = "off" /\ task[r][t].hist = <<>>
                 /\ store = <<>>)

\* C19's case: a Context that has issued a sequence number for an id got a
\* Step call with a nil fn for the same id, which returned the error
C19_Witness ==
    \E r \in Runs : \E t \in Slots(r) :
        /\ cfg.runs[r].args.store
        /\ Len(task[r][t].hist) = 2
        /\ task[r][t].hist[1].ok
        /\ task[r][t].hist[2].err = "step function is nil"
        /\ CounterOf(ctx[r].stepCounters, resolveStepID(<<"S">>)) > 0


-----------------------------------------------------------------------------
(* Many workflows on one store: every run has its own workflow id, the runs
   go on at the same time, and each makes the same Step calls: two unique
   steps in parallel, then one more step *)

WorkflowIDs == <<"w1", "w2", "w3", "w4">>

\* the value fn returns in workflow number w for its i-th step
OwnValue(w, i) == Value(10 * w + i, 1, FALSE)

IsolateCfg ==
    [serial |-> FALSE,
     runs   |-> [r \in 1 .. MaxRuns |->
                    Run(WorkflowIDs[r], 0,
                        << << <<Op(<<"a">>, {OkOut(OwnValue(r, 1))})>>,
                              <<Op(<<"b">>, {OkOut(OwnValue(r, 2))})>> >>,
                           << <<Op(<<"l">>, {OkOut(OwnValue(r, 3))})>> >> >>,
                        0, FALSE, FALSE)]]

InitIsolate == InitWith(IsolateCfg)

SpecIsolate == InitIsolate /\ [][StepActions]_vars

RowsOf(wf) == {k \in RowKeys : k[1] = wf}

\* C20: a step of a Step call of a run on workflow id W leaves every row of
\* any other workflow id as it was and creates none; a row's workflow_id is
\* the one of its key; a call that returned a value returned one computed in
\* its own workflow; and when all workflows have returned, each has its own
\* 3 rows, with the same step keys as the others, completed by its own run
\* with its own outputs.
C20_WorkflowIsolation ==
    /\ [][\A r \in Runs :
             task'[r] # task[r] =>
                 \A k \in DOMAIN store' :
                     k[1] # cfg.runs[r].wf =>
                         k \in DOMAIN store /\ store'[k] = store[k]]_vars
    /\ [](/\ \A k \in RowKeys : store[k].workflow_id = k[1]
          /\ \A r \in Runs : \A c \in CallsOf(r) :
                 c.ok => c.val \in {OwnValue(r, i) : i \in 1 .. 3}
          /\ (\A r \in Runs : ctx[r].status = "returned") =>
                 \A r \in Runs :
                     /\ Cardinality(RowsOf(cfg.runs[r].wf)) = 3
                     /\ {k[2] : k \in RowsOf(cfg.runs[r].wf)} =
                          {k[2] : k \in RowsOf(cfg.runs[1].wf)}
                     /\ \A k \in RowsOf(cfg.runs[r].wf) :
                           /\ store[k].status = statusCompleted
                           /\ store[k].run_id = ctx[r].RunID
                           /\ \E i \in 1 .. 3 :
                                 store[k].output_json = Some(Marshal(OwnValue(r, i)).json))

\* C20's case: all workflows have returned, and two of them hold a completed
\* row for the same step key with different outputs
C20_Witness ==
    /\ \A r \in Runs : ctx[r].status = "returned"
    /\ \E k, l \in RowKeys :
          /\ k[1] # l[1]
          /\ k[2] = l[2]
          /\ store[k].status = statusCompleted
          /\ store[l].status = statusCompleted
          /\ store[k].output_json # store[l].output_json


-----------------------------------------------------------------------------
(* Reruns of a completed workflow: the runs go one after the other on one
   workflow id, every fn succeeds (with an output that differs from run to
   run), and the clock advances between and during the runs *)

CachedCfg ==
    [serial |-> TRUE,
     runs   |-> [r \in 1 .. MaxRuns |->
                    Run("w1", 0,
                        << << [i \in 1 .. OpsLen |->
                                 Op(<<"S">>, {OkOut(Value(10 * r + i, 1, FALSE))})] >> >>,
                        0, FALSE, FALSE)]]

InitCached == InitWith(CachedCfg)

NextCached == StepActions \/ Tick

SpecCached == InitCached /\ [][NextCached]_vars

\* C21: the step in which a Step call finds its row completed leaves the
\* store as it is; and once the first run has returned, with all its rows
\* completed, no step of any later run changes the store: the rows, and
\* every column of every row, stay as the first run left them.
C21_CacheHitWritesNothing ==
    /\ [][\A r \in Runs : \A t \in Slots(r) :
             (/\ task[r][t].pc = "claim"
              /\ RowOf(r, t) \in RowKeys
              /\ store[RowOf(r, t)].status = statusCompleted
              /\ task'[r][t] # task[r][t]) =>
                 store' = store]_vars
    /\ [][ctx[1].status = "returned" => store' = store]_vars

\* C21's case: the workflow was rerun to the end at a later time than the
\* one its rows were written at, by a run other than the one that wrote them
C21_Witness ==
    /\ ctx[MaxRuns].status = "returned"
    /\ Cardinality(RowKeys) = OpsLen
    /\ \A k \in RowKeys :
          /\ store[k].status = statusCompleted
          /\ store[k].run_id # ctx[MaxRuns].RunID
          /\ store[k].updated_at # FormatTime(now)
    /\ \A c \in CallsOf(MaxRuns) : c.branch = "cached"


-----------------------------------------------------------------------------
(* The Store handle called directly (as the tests that seed rows do): each
   caller makes one store call after the other.  GetStep goes through
   queryRows, the three writes through execWrite.  cfg.outcomes are the
   outcomes a sqlite3 invocation may have: "ok", "busy" (database is locked)
   or "error" (any other failure). *)

\* NewStore: maxRetries: 8
maxRetries == 8

Callers == DOMAIN call

StoreOps == {"GetStep", "UpsertRunning", "MarkCompleted", "MarkFailed"}

\* the row every direct call is about
SeedRef == [StepID |-> <<"s">>, Sequence |-> 1, StepKey |-> StepKeyOf(<<"s">>, 1)]

\* the text argument of a write by runID: the payload of MarkCompleted, the
\* error text of MarkFailed
TextOf(op, runID) ==
    IF op = "MarkCompleted" THEN FormatInt(runID)
    ELSE IF op = "MarkFailed" THEN <<"e">> \o FormatInt(runID)
    ELSE <<>>

NoGot == [found |-> FALSE, rec |-> ZeroRecord]

\* pc: "idle" (between calls), "lock" (at s.mu.Lock), "run" (in runSQLite),
\* "unlock" (at s.mu.Unlock), "sleep" (in the backoff of execWrite).
\* t: the now of the call, taken before the first attempt.  attempt: the
\* loop variable of execWrite.  out: the outcome of the last attempt.
\* ret: what the last call returned: "" (no call yet or call in progress),
\* "nil", or the outcome that failed it.  got: what the last GetStep read.
IdleCall ==
    [pc |-> "idle", op |-> "", wf |-> "", ref |-> NoRef, runID |-> 0, text |-> <<>>,
     t |-> 0, attempt |-> 0, out |-> "", ret |-> "", got |-> NoGot]

InitStoreWith(c) ==
    /\ cfg = c
    /\ store = <<>>
    /\ now = 0
    /\ faults = 0
    /\ ctx = <<>>
    /\ task = <<>>
    /\ storeMu = 0
    /\ call = [i \in 1 .. c.callers |-> IdleCall]

\* a caller enters GetStep, UpsertRunning, MarkCompleted or MarkFailed; the
\* writes take now := time.Now() first
StoreCall(c) ==
    /\ call[c].pc = "idle"
    /\ \E op \in cfg.ops : \E runID \in cfg.runIDs : \E wf \in cfg.wfs : \E ref \in cfg.refs :
          call' = [call EXCEPT ![c] =
                     [IdleCall EXCEPT !.pc = "lock", !.op = op, !.wf = wf,
                                      !.ref = ref,
                                      !.runID = IF op = "GetStep" THEN 0 ELSE runID,
                                      !.text = TextOf(op, runID),
                                      !.t = IF op = "GetStep" THEN 0 ELSE now]]
    /\ UNCHANGED <<cfg, store, now, faults, ctx, task, storeMu>>

\* execWrite, queryRows: s.mu.Lock()
StoreLock(c) ==
    /\ call[c].pc = "lock"
    /\ lockFree(storeMu)
    /\ storeMu' = c
    /\ call' = [call EXCEPT ![c].pc = "run"]
    /\ UNCHANGED <<cfg, store, now, faults, ctx, task>>

\* the statement of the call applied to the table s
Applied(s, cl) ==
    IF cl.op = "UpsertRunning" THEN UpsertRunning(s, cl.wf, cl.ref, cl.runID, cl.t)
    ELSE IF cl.op = "MarkCompleted"
    THEN MarkCompleted(s, cl.wf, cl.ref.StepKey, cl.runID, cl.text, cl.t)
    ELSE IF cl.op = "MarkFailed"
    THEN MarkFailed(s, cl.wf, cl.ref.StepKey, cl.runID, cl.text, cl.t)
    ELSE s

\* runSQLite: one sqlite3 invocation, which applies the statement or fails
StoreRunSQLite(c) ==
    /\ call[c].pc = "run"
    /\ \E o \in cfg.outcomes :
          /\ store' = IF o = "ok" THEN Applied(store, call[c]) ELSE store
          /\ call' = [call EXCEPT ![c].pc = "unlock", ![c].out = o,
                                  ![c].got = IF o = "ok" /\ call[c].op = "GetStep"
                                             THEN GetStep(store, call[c].wf,
                                                          call[c].ref.StepKey)
                                             ELSE NoGot]
    /\ UNCHANGED <<cfg, now, faults, ctx, task, storeMu>>

\* faulty variant: every error is retried
execWriteNext_RetriesAnyError(out, attempt) ==
    IF out = "ok" THEN "return"
    ELSE IF attempt = maxRetries THEN "return"
    ELSE "retry"

\* execWrite, lines 426-433: return nil, return lastErr, or sleep and retry
execWriteNext(out, attempt) ==
    IF out = "ok" THEN "return"
    ELSE IF out # "busy" \/ attempt = maxRetries THEN "return"
    ELSE "retry"

\* what the call does after an attempt: queryRows returns whatever the
\* outcome, execWrite returns or retries
AfterAttempt(cl) ==
    IF cl.op = "GetStep" THEN "return" ELSE execWriteNext(cl.out, cl.attempt)

\* s.mu.Unlock(), and the return or the decision to retry that follows
StoreUnlock(c) ==
    /\ call[c].pc = "unlock"
    /\ storeMu' = 0
    /\ call' = [call EXCEPT ![c] =
                  IF AfterAttempt(call[c]) = "return"
                  THEN [call[c] EXCEPT !.pc = "idle",
                                       !.ret = IF call[c].out = "ok" THEN "nil"
                                               ELSE call[c].out]
                  ELSE [call[c] EXCEPT !.pc = "sleep"]]
    /\ UNCHANGED <<cfg, store, now, faults, ctx, task>>

\* execWrite: time.Sleep(backoff), then the next attempt
StoreBackoff(c) ==
    /\ call[c].pc = "sleep"
    /\ call' = [call EXCEPT ![c].pc = "lock", ![c].attempt = @ + 1]
    /\ UNCHANGED <<cfg, store, now, faults, ctx, task, storeMu>>

DoStoreCall == \E c \in Callers : StoreCall(c)
DoStoreLock == \E c \in Callers : StoreLock(c)
DoStoreRunSQLite == \E c \in Callers : StoreRunSQLite(c)
DoStoreUnlock == \E c \in Callers : StoreUnlock(c)
DoStoreBackoff == \E c \in Callers : StoreBackoff(c)

\* a healthy back-end, one caller acting for any of the runs, the clock
\* advancing: the four operations applied in any order to the row
StoreCfg ==
    [serial |-> TRUE, runs |-> <<>>, callers |-> 1, outcomes |-> {"ok"},
     ops |-> StoreOps, runIDs |-> 1 .. MaxRuns,
     wfs |-> {"w1"}, refs |-> {SeedRef}]

InitStore == InitStoreWith(StoreCfg)

NextStore == DoStoreCall \/ DoStoreLock \/ DoStoreRunSQLite \/ DoStoreUnlock \/ Tick

SpecStore == InitStore /\ [][NextStore]_vars

\* the row of caller c's call
CallKey(c) == <<call[c].wf, call[c].ref.StepKey>>

\* caller c's statement is applied in this step
Applies(c, op) ==
    /\ call[c].pc = "run"
    /\ call[c].op = op
    /\ call'[c].pc = "unlock"
    /\ call'[c].out = "ok"


\* C22: UpsertRunning applied when its row is absent inserts it as running
\* with the given step_id, sequence and run_id, output and error NULL and
\* started_at = updated_at = the now of the call; applied to a row that is
\* not completed it makes the row running under the new run_id with output
\* and error NULL and both timestamps reset, the other columns kept; applied
\* to a completed row it changes nothing; and in each case it returns nil.
C22_UpsertRunning ==
    [][\A c \in Callers :
          Applies(c, "UpsertRunning") =>
              LET k   == CallKey(c)
                  cl  == call[c]
                  new == store'[k]
              IN  /\ DOMAIN store' = DOMAIN store \cup {k}
                  /\ \A o \in DOMAIN store \ {k} : store'[o] = store[o]
                  /\ AfterAttempt(call'[c]) = "return"
                  /\ IF k \notin DOMAIN store
                     THEN new = [workflow_id |-> cl.wf, step_key |-> cl.ref.StepKey,
                                 step_id |-> cl.ref.StepID, sequence |-> cl.ref.Sequence,
                                 status |-> statusRunning, output_json |-> NULL,
                                 error_text |-> NULL, run_id |-> cl.runID,
                                 started_at |-> FormatTime(cl.t),
                                 updated_at |-> FormatTime(cl.t)]
                     ELSE IF store[k].status # statusCompleted
                     THEN new = [workflow_id |-> store[k].workflow_id,
                                 step_key |-> store[k].step_key,
                                 step_id |-> store[k].step_id,
                                 sequence |-> store[k].sequence,
                                 status |-> statusRunning, output_json |-> NULL,
                                 error_text |-> NULL, run_id |-> cl.runID,
                                 started_at |-> FormatTime(cl.t),
                                 updated_at |-> FormatTime(cl.t)]
                     ELSE new = store[k]]_vars

\* C22's case: UpsertRunning by another run, at a later time, has returned
\* nil on a completed row
C22_Witness ==
    \E c \in Callers :
        /\ call[c].op = "UpsertRunning"
        /\ call[c].ret = "nil"
        /\ CallKey(c) \in RowKeys
        /\ store[CallKey(c)].status = statusCompleted
        /\ store[CallKey(c)].run_id # call[c].runID
        /\ store[CallKey(c)].updated_at # FormatTime(call[c].t)


\* C23 (as claimed): MarkCompleted applied to an existing row sets status
\* completed, output_json to the payload, error_text NULL, run_id to the
\* caller's and updated_at to the now of the call, and keeps started_at,
\* step_id and sequence; MarkFailed applied to an existing row sets status
\* failed, error_text to the text, output_json NULL, run_id to the caller's
\* and updated_at to the now of the call, whatever the row was before.
C23_CommitOperations ==
    [][\A c \in Callers :
          /\ (Applies(c, "MarkCompleted") /\ CallKey(c) \in DOMAIN store) =>
                store'[CallKey(c)] =
                    [store[CallKey(c)] EXCEPT !.status = statusCompleted,
                                              !.output_json = Some(call[c].text),
                                              !.error_text = NULL,
                                              !.run_id = call[c].runID,
                                              !.updated_at = FormatTime(call[c].t)]
          /\ (Applies(c, "MarkFailed") /\ CallKey(c) \in DOMAIN store) =>
                store'[CallKey(c)] =
                    [store[CallKey(c)] EXCEPT !.status = statusFailed,
                                              !.error_text = Some(call[c].text),
                                              !.output_json = NULL,
                                              !.run_id = call[c].runID,
                                              !.updated_at = FormatTime(call[c].t)]]_vars


-----------------------------------------------------------------------------
(* The takeover condition: runs that may die, one after the other on one
   workflow id, with a zombie timeout that is negative, 0, 1 or ZombieAge,
   the clock advancing, and the updated_at of a running row possibly
   rewritten from outside in a format time.Parse rejects *)

notATime == <<"?">>

\* an UPDATE of updated_at run on the store from outside the engine
GarbleTime ==
    \E k \in RowKeys :
        /\ store[k].status = statusRunning
        /\ store[k].updated_at # notATime
        /\ store' = [store EXCEPT ![k].updated_at = notATime]
        /\ UNCHANGED <<cfg, now, faults, ctx, task, storeMu, call>>

InitTakeover ==
    \E zts \in [1 .. MaxRuns -> {-1, 0, 1, ZombieAge}] : InitWith(ZombieCfg(zts))

NextTakeover == StepActions \/ CrashActions \/ Tick \/ GarbleTime

SpecTakeover == InitTakeover /\ [][NextTakeover]_vars

\* C24: when the claim of a Step call reads its row as running under another
\* run_id, it goes on to take the row over if zombie_timeout <= 0, or the
\* row's updated_at does not parse, or now - updated_at >= zombie_timeout;
\* otherwise Step returns the "still running under run_id" error, fn not
\* invoked and the store unchanged.
C24_TakeoverCondition ==
    [][\A r \in Runs : \A t \in Slots(r) :
          LET row == store[RowOf(r, t)]
          IN  (/\ ctx[r].status = "active"
               /\ ctx'[r].status = "active"
               /\ task[r][t].pc = "claim"
               /\ task'[r][t] # task[r][t]
               /\ RowOf(r, t) \in RowKeys
               /\ row.status = statusRunning
               /\ row.run_id # ctx[r].RunID) =>
                  IF \/ ctx[r].ZombieTimeout <= 0
                     \/ ~ParseTime(row.updated_at).ok
                     \/ now - ParseTime(row.updated_at).t >= ctx[r].ZombieTimeout
                  THEN /\ task'[r][t].pc = "upsert"
                       /\ task'[r][t].branch = "takeover"
                       /\ store' = store
                  ELSE /\ task'[r][t].pc = "done"
                       /\ Len(task'[r][t].hist) = Len(task[r][t].hist) + 1
                       /\ LET c == task'[r][t].hist[Len(task'[r][t].hist)]
                          IN  /\ ~c.ok
                              /\ ~c.invoked
                              /\ c.err = "still running under run_id"
                       /\ store' = store]_vars

\* C24's case: a run with a zombie timeout > 0 took over a row whose age was
\* exactly the timeout
C24_Witness ==
    \E r \in Runs : \E t \in Slots(r) :
        /\ ctx[r].ZombieTimeout > 0
        /\ task[r][t].pc = "upsert"
        /\ task[r][t].branch = "takeover"
        /\ RowOf(r, t) \in RowKeys
        /\ ParseTime(store[RowOf(r, t)].updated_at).ok
        /\ now - ParseTime(store[RowOf(r, t)].updated_at).t = ctx[r].ZombieTimeout


-----------------------------------------------------------------------------
(* Reentrancy: runs that may die, one after the other on one workflow id,
   where a later run's Context may be given the run id of an earlier one
   (RunID is an exported field), with zombie timeout 0 or ZombieAge *)

ReentrantCfg(zts, ids) ==
    [serial |-> TRUE,
     runs   |-> [r \in 1 .. MaxRuns |-> RunAs(ZombieCfg(zts).runs[r], ids[r])]]

InitReentrant ==
    \E zts \in [1 .. MaxRuns -> {0, ZombieAge}] :
    \E ids \in [1 .. MaxRuns -> 0 .. MaxRuns] :
        /\ \A r \in 1 .. MaxRuns : ids[r] < r
        /\ InitWith(ReentrantCfg(zts, ids))

SpecReentrant == InitReentrant /\ [][NextZombie]_vars

\* C25: a Step call whose claim reads its row as running under the Context's
\* own run_id returns the "already running in this execution" error, fn not
\* invoked and the store unchanged, whatever the zombie timeout and the age
\* of the row.
C25_ReentrancyRejected ==
    [][\A r \in Runs : \A t \in Slots(r) :
          (/\ ctx[r].status = "active"
           /\ ctx'[r].status = "active"
           /\ task[r][t].pc = "claim"
           /\ task'[r][t] # task[r][t]
           /\ RowOf(r, t) \in RowKeys
           /\ store[RowOf(r, t)].status = statusRunning
           /\ store[RowOf(r, t)].run_id = ctx[r].RunID) =>
              /\ task'[r][t].pc = "done"
              /\ Len(task'[r][t].hist) = Len(task[r][t].hist) + 1
              /\ LET c == task'[r][t].hist[Len(task'[r][t].hist)]
                 IN  /\ ~c.ok
                     /\ ~c.invoked
                     /\ c.err = "already running in this execution"
              /\ store' = store]_vars

\* C25's case: a Context with zombie timeout 0 was refused the row that is
\* running under its own run_id
C25_Witness ==
    \E r \in Runs : \E c \in CallsOf(r) :
        /\ ctx[r].ZombieTimeout = 0
        /\ c.err = "already running in this execution"
        /\ store[<<cfg.runs[r].wf, c.key>>].status = statusRunning
        /\ store[<<cfg.runs[r].wf, c.key>>].run_id = ctx[r].RunID


-----------------------------------------------------------------------------
(* The claim window: a run and its rerun on one workflow id, each with
   NumPar parallel tasks that call Step once with the same id; the first run
   may die and its fns may fail, so that the tasks of the rerun find rows
   absent, failed, running under the dead run, or completed *)

WindowCfg ==
    [serial |-> TRUE,
     runs   |-> << Run("w1", 0,
                       << [t \in 1 .. NumPar |->
                             <<Op(<<"S">>, {OkOut(Value(10 + t, 1, FALSE)),
                                            ErrOut(<<"e">>)})>>] >>,
                       0, TRUE, FALSE),
                   Run("w1", 0,
                       << [t \in 1 .. NumPar |->
                             <<Op(<<"S">>, {OkOut(Value(20 + t, 1, FALSE))})>>] >>,
                       0, FALSE, FALSE) >>]

InitWindow == InitWith(WindowCfg)

SpecWindow == InitWindow /\ [][NextOnboarding]_vars

\* the tasks of run r between the answer of GetStep and their UpsertRunning
InWindow(r) == {t \in Slots(r) : task[r][t].pc = "upsert"}

\* C26: in one Context at most one Step call at a time is between its
\* GetStep and its UpsertRunning, and it is the one holding claimMu; no two
\* tasks of a run are working on the same step_key; and the calls of one run
\* invoke fn at most once for any step_key.
C26_ClaimWindow ==
    \A r \in Runs :
        ctx[r].status = "active" =>
            /\ Cardinality(InWindow(r)) <= 1
            /\ \A t \in InWindow(r) : ctx[r].claimMu = t
            /\ InWindow(r) = {} => ctx[r].claimMu = 0
            /\ \A t, u \in Slots(r) :
                  (/\ t # u
                   /\ task[r][t].pc \in {"claim", "upsert", "exec", "commit"}
                   /\ task[r][u].pc \in {"claim", "upsert", "exec", "commit"}) =>
                      task[r][t].ref.StepKey # task[r][u].ref.StepKey
            /\ \A k \in RowKeys : FnCalls({r}, k) <= 1

\* C26's case: a task of a later run is inside its window, about to re-claim
\* a row that is failed or running under a dead run, while another task of
\* the run waits for claimMu
C26_Witness ==
    \E r \in Runs : \E t, u \in Slots(r) :
        /\ ctx[r].status = "active"
        /\ task[r][t].pc = "upsert"
        /\ task[r][t].branch \in {"retry", "takeover"}
        /\ task[r][u].pc = "claim"


-----------------------------------------------------------------------------
(* One Store handle shared by NumPar callers that make their calls at the
   same time, for either of two runs, on a healthy back-end *)

SerialCfg ==
    [serial |-> FALSE, runs |-> <<>>, callers |-> NumPar, outcomes |-> {"ok"},
     ops |-> StoreOps, runIDs |-> {1, 2},
     wfs |-> {"w1"}, refs |-> {SeedRef}]

InitSerial == InitStoreWith(SerialCfg)

NextSerial == DoStoreCall \/ DoStoreLock \/ DoStoreRunSQLite \/ DoStoreUnlock

SpecSerial == InitSerial /\ [][NextSerial]_vars

\* the callers inside s.mu.Lock() ... s.mu.Unlock()
InBackend == {c \in Callers : call[c].pc \in {"run", "unlock"}}

\* C27: at most one caller at a time is between s.mu.Lock() and
\* s.mu.Unlock(), and it is the holder of the mutex; the table changes only
\* in the step in which the holder's sqlite3 invocation runs, and then by the
\* whole effect of its statement; and a read returns the row as the table
\* holds it at that step, that is with every write applied before it.
C27_StoreSerialization ==
    /\ [](/\ Cardinality(InBackend) <= 1
          /\ \A c \in InBackend : storeMu = c
          /\ InBackend = {} => storeMu = 0)
    /\ [][/\ store' # store =>
               \E c \in Callers :
                   /\ storeMu = c
                   /\ call[c].pc = "run"
                   /\ call'[c].pc = "unlock"
                   /\ \A d \in Callers \ {c} : call'[d] = call[d]
                   /\ store' = Applied(store, call[c])
          /\ \A c \in Callers :
                 Applies(c, "GetStep") =>
                     /\ storeMu = c
                     /\ store' = store
                     /\ call'[c].got = GetStep(store, call[c].wf, call[c].ref.StepKey)]_vars

\* C27's case: one caller is inside the back-end with a write while another
\* waits for the mutex with a read of the same row
C27_Witness ==
    \E c, d \in Callers :
        /\ c # d
        /\ call[c].pc = "run"
        /\ call[c].op = "MarkCompleted"
        /\ call[d].pc = "lock"
        /\ call[d].op = "GetStep"
        /\ CallKey(c) = CallKey(d)
        /\ CallKey(c) \in RowKeys


-----------------------------------------------------------------------------
(* A back-end that may be locked or fail: one caller making store calls one
   after the other, each sqlite3 invocation succeeding, reporting "database
   is locked", or failing otherwise *)

RetryCfg ==
    [serial |-> TRUE, runs |-> <<>>, callers |-> 1,
     outcomes |-> {"ok", "busy", "error"}, ops |-> StoreOps, runIDs |-> {1},
     wfs |-> {"w1"}, refs |-> {SeedRef}]

InitRetry == InitStoreWith(RetryCfg)

NextRetry ==
    DoStoreCall \/ DoStoreLock \/ DoStoreRunSQLite \/ DoStoreUnlock \/ DoStoreBackoff

\* A call in progress goes on: the mutex is free for the only caller, the
\* sqlite3 invocation ends (busy timeout), the sleep ends.
SpecRetry ==
    /\ InitRetry
    /\ [][NextRetry]_vars
    /\ WF_vars(DoStoreLock)
    /\ WF_vars(DoStoreRunSQLite)
    /\ WF_vars(DoStoreUnlock)
    /\ WF_vars(DoStoreBackoff)

IsWrite(op) == op \in {"UpsertRunning", "MarkCompleted", "MarkFailed"}

\* C28: a write returns nil after its first successful attempt; after an
\* attempt that failed with an error other than busy it returns that error
\* without another attempt; after a busy attempt it sleeps and tries again,
\* unless that was attempt number maxRetries + 1 = 9, after which it returns
\* the busy error; the mutex is not held between attempts; and every write
\* returns in the end.
C28_BoundedRetry ==
    /\ [][\A c \in Callers :
             (call[c].pc = "unlock" /\ IsWrite(call[c].op) /\ call'[c] # call[c]) =>
                 /\ storeMu' = 0
                 /\ call'[c].attempt = call[c].attempt
                 /\ IF call[c].out = "ok"
                    THEN call'[c].pc = "idle" /\ call'[c].ret = "nil"
                    ELSE IF call[c].out = "error"
                    THEN call'[c].pc = "idle" /\ call'[c].ret = "error"
                    ELSE IF call[c].attempt + 1 < 9
                    THEN call'[c].pc = "sleep"
                    ELSE call'[c].pc = "idle" /\ call'[c].ret = "busy"]_vars
    /\ [][\A c \in Callers :
             (call[c].pc = "sleep" /\ call'[c] # call[c]) =>
                 /\ call'[c].pc = "lock"
                 /\ call'[c].attempt = call[c].attempt + 1
                 /\ store' = store]_vars
    /\ [](\A c \in Callers :
             /\ call[c].attempt + 1 <= 9
             /\ call[c].pc \in {"idle", "lock", "sleep"} => storeMu # c)
    /\ \A c \in {1} : (call[c].pc # "idle") ~> (call[c].pc = "idle")

\* C28's case: a write gave up with the busy error after its 9th attempt
C28_Witness ==
    \E c \in Callers :
        /\ call[c].pc = "idle"
        /\ IsWrite(call[c].op)
        /\ call[c].ret = "busy"
        /\ call[c].attempt + 1 = 9


\* C29 (as claimed): for every store operation Step performs (GetStep,
\* UpsertRunning, MarkCompleted, MarkFailed) a busy outcome of an attempt is
\* followed by another attempt unless the retry bound is exhausted, so that
\* the caller gets a busy error only after maxRetries + 1 attempts, while
\* any other error is returned after the attempt that met it.
C29_BusyRetriedInternally ==
    /\ [][\A c \in Callers :
             (call[c].pc = "unlock" /\ call'[c] # call[c]) =>
                 /\ (call[c].out = "busy" /\ call[c].attempt < maxRetries) =>
                        call'[c].pc = "sleep"
                 /\ call[c].out = "error" =>
                        call'[c].pc = "idle" /\ call'[c].ret = "error"]_vars
    /\ [](\A c \in Callers :
             (call[c].pc = "idle" /\ call[c].ret = "busy") =>
                 call[c].attempt = maxRetries)


-----------------------------------------------------------------------------
(* Failure marking that fails: runs one after the other on one workflow id,
   each calling Step once with a fn that may fail, the write after fn
   possibly failing, zombie timeout 0 or ZombieAge, the clock advancing *)

BestEffortCfg(zts) ==
    [serial |-> TRUE,
     runs   |-> [r \in 1 .. MaxRuns |->
                    Run("w1", zts[r],
                        << << <<Op(<<"S">>, {OkOut(Value(r, 1, FALSE)),
                                             ErrOut(<<"e">>)})>> >> >>,
                        0, FALSE, TRUE)]]

InitBestEffort ==
    \E zts \in [1 .. MaxRuns -> {0, ZombieAge}] : InitWith(BestEffortCfg(zts))

SpecBestEffort == InitBestEffort /\ [][NextCheckpoint]_vars

\* C30: when fn has returned an error and the MarkFailed write fails, Step
\* returns the wrapped error of fn, and the row stays as the claim left it:
\* running under the current run_id; and the Step call of the next run for
\* the key of a call whose fn failed reads the row as failed or as running.
C30_BestEffortFailureMarking ==
    /\ [][\A r \in Runs : \A t \in Slots(r) :
             (/\ task[r][t].pc = "commit"
              /\ ~task[r][t].out.ok
              /\ faults' # faults
              /\ task'[r][t] # task[r][t]) =>
                 LET c == task'[r][t].hist[Len(task'[r][t].hist)]
                 IN  /\ Len(task'[r][t].hist) = Len(task[r][t].hist) + 1
                     /\ ~c.ok
                     /\ c.invoked
                     /\ c.err = "step failed"
                     /\ store' = store
                     /\ store'[RowOf(r, t)].status = statusRunning
                     /\ store'[RowOf(r, t)].run_id = ctx[r].RunID]_vars
    /\ [](\A r \in Runs : \A c \in CallsOf(r) :
             (c.invoked /\ ~c.out.ok /\ r + 1 \in Runs) =>
                 \A d \in CallsOf(r + 1) :
                     (d.key = c.key /\ d.read # "") =>
                         d.read \in {statusFailed, statusRunning})

\* C30's case: fn failed, the MarkFailed write failed too, and the next run
\* found the row still running
C30_Witness ==
    \E r \in Runs :
        /\ r + 1 \in Runs
        /\ faults > 0
        /\ \E c \in CallsOf(r) : c.invoked /\ ~c.out.ok /\ c.err = "step failed"
        /\ \E d \in CallsOf(r + 1) : d.read = statusRunning

-----------------------------------------------------------------------------
(* Scenario: a store failure during the claim, among parallel tasks *)

\* One run whose NumPar parallel tasks each call Step twice, with two raw ids
\* of one normal form; GetStep and UpsertRunning may fail.
ClaimFailCfg ==
    [serial |-> TRUE,
     runs   |-> << Run("w1", 0,
                       << [t \in 1 .. NumPar |->
                             <<Op(<<"S">>, {OkOut(Value(t, 1, FALSE))}),
                               Op(<<"s">>, {OkOut(Value(t, 1, FALSE))})>>] >>,
                       0, FALSE, TRUE) >>]

InitClaimFail == InitWith(ClaimFailCfg)

NextClaimFail == StepActions \/ DoClaimGetFails \/ DoClaimUpsertFails

SpecClaimFail == InitClaimFail /\ [][NextClaimFail]_vars

\* the sequence numbers run r has issued for step id stepID so far
IssuedSeqs(r, stepID) ==
    {c.seq : c \in {d \in CallsOf(r) : d.stepID = stepID}}
        \cup {task[r][t].ref.Sequence :
                 t \in {u \in Slots(r) : /\ task[r][u].pc \in {"claim", "upsert", "exec", "commit"}
                                          /\ task[r][u].ref.StepID = stepID}}

\* C31: when GetStep or UpsertRunning fails during the claim, Step returns
\* the wrapped error without invoking fn and without a store write, the
\* call is over, and the sequence number it was issued stays consumed: the
\* Context's counters are unchanged, and every later Step call with the same
\* step id on that Context is issued the next sequence number and step_key.
C31_ClaimFailure ==
    /\ [][\A r \in Runs : \A t \in Slots(r) :
             (/\ task[r][t].pc \in {"claim", "upsert"}
              /\ faults' # faults
              /\ task'[r][t] # task[r][t]) =>
                 LET c == task'[r][t].hist[Len(task'[r][t].hist)]
                 IN  /\ Len(task'[r][t].hist) = Len(task[r][t].hist) + 1
                     /\ ~c.ok
                     /\ ~c.invoked
                     /\ c.err = IF task[r][t].pc = "claim" THEN "load step state"
                                 ELSE "upsert running step"
                     /\ c.key = task[r][t].ref.StepKey
                     /\ task'[r][t].pc = "done"
                     /\ store' = store
                     /\ ctx'[r].stepCounters = ctx[r].stepCounters
                     /\ CounterOf(ctx'[r].stepCounters, c.stepID) >= c.seq]_vars
    /\ [][\A r \in Runs : \A t \in Slots(r) :
             (task[r][t].pc = "idle" /\ task'[r][t].pc = "claim") =>
                 LET ref == task'[r][t].ref
                 IN  /\ ref.Sequence = MaxOf(IssuedSeqs(r, ref.StepID)) + 1
                     /\ ref.StepKey = StepKeyOf(ref.StepID, ref.Sequence)]_vars

\* C31's case: a call failed in its claim, and the next call with the same
\* step id on the Context was issued the next step_key and completed
C31_Witness ==
    \E c \in CallsOf(1) : \E d \in CallsOf(1) :
        /\ c.err \in {"load step state", "upsert running step"}
        /\ d.stepID = c.stepID
        /\ d.seq = c.seq + 1
        /\ d.ok /\ d.invoked
        /\ store[<<"w1", d.key>>].status = statusCompleted
        /\ c.err = "upsert running step" => <<"w1", c.key>> \notin DOMAIN store
-----------------------------------------------------------------------------
(* Scenario: Step calls made while a step function runs *)

\* One run of NumPar tasks on one Context, all with the id "S".  nested: the
\* first task calls Step once and the other tasks are started from inside
\* the fn of that call; otherwise the tasks are launched together.
OutsideCfg(nested) ==
    [serial |-> TRUE,
     runs   |-> << RunNested(
                     Run("w1", 0,
                         << [t \in 1 .. NumPar |->
                               IF nested /\ t = 1
                               THEN <<Op(<<"S">>, {OkOut(Value(t, 1, FALSE))})>>
                               ELSE <<Op(<<"S">>, {OkOut(Value(t, 1, FALSE))}),
                                      Op(<<"S">>, {OkOut(Value(t, 1, FALSE))})>>] >>,
                         0, FALSE, FALSE),
                     nested) >>]

InitOutside == \E nested \in BOOLEAN : InitWith(OutsideCfg(nested))

SpecOutside == InitOutside /\ [][StepActions]_vars

\* task u of run r, in the middle of a Step call or about to make one, is
\* not kept waiting by task t: its next step can be taken, or the claim mutex
\* it waits for is held by a third task that is inside its claim and can
\* finish it
NotBlockedBy(r, u, t) ==
    /\ task[r][u].pc = "idle" /\ (Inner(r, u) => task[r][1].pc = "exec") =>
           ENABLED CallStep(r, u)
    /\ task[r][u].pc = "claim" =>
           \/ ENABLED ClaimGet(r, u)
           \/ \E v \in Active(r) \ {t, u} :
                  /\ ctx[r].claimMu = v
                  /\ task[r][v].pc = "upsert"
                  /\ ENABLED ClaimUpsert(r, v)
    /\ task[r][u].pc = "upsert" => ENABLED ClaimUpsert(r, u)
    /\ task[r][u].pc = "commit" => ENABLED Commit(r, u)

\* C32: while a Step call is executing its fn it holds neither the claim
\* mutex nor the store mutex (the sequence mutex is taken and released
\* inside nextStepRef, before the claim), so no other task sharing the
\* Context is kept waiting by it, whether launched beside it or calling Step
\* from inside its fn.
C32_FnOutsideLocks ==
    \A r \in Runs : \A t \in Slots(r) :
        (ctx[r].status = "active" /\ task[r][t].pc = "exec") =>
            /\ ctx[r].claimMu # t
            /\ storeMu = 0
            /\ \A u \in Active(r) \ {t} : NotBlockedBy(r, u, t)

\* C32's case: a Step call made from inside the fn of another call on the
\* same Context has claimed, executed and committed its step while that fn
\* was still running
C32_Witness ==
    /\ cfg.runs[1].nested
    /\ task[1][1].pc = "exec"
    /\ \E c \in Range(task[1][2].hist) :
          /\ c.ok /\ c.invoked
          /\ c.stepID = task[1][1].ref.StepID
          /\ c.seq > task[1][1].ref.Sequence
          /\ store[<<"w1", c.key>>].status = statusCompleted
    /\ store[<<"w1", task[1][1].ref.StepKey>>].status = statusRunning
-----------------------------------------------------------------------------
(* Scenario: two workflows of parallel tasks and a reader on one Store *)

\* Two runs at once on one workflow id, the first of NumPar parallel tasks,
\* the second of one task, every task calling Step once with the id "T", and
\* one more user of the Store that calls GetStep for another row again and
\* again: the store mutex is seen held.
SharedCfg ==
    [serial |-> FALSE,
     runs   |-> [r \in {1, 2} |->
                    Run("w1", 0,
                        << [t \in 1 .. (IF r = 1 THEN NumPar ELSE 1) |->
                              <<Op(<<"T">>, {OkOut(Value(r, 1, FALSE))})>>] >>,
                        0, FALSE, FALSE)],
     callers |-> 1, outcomes |-> {"ok"}, ops |-> {"GetStep"}, runIDs |-> {1},
     wfs |-> {"w1"}, refs |-> {SeedRef}]

InitShared ==
    /\ cfg = SharedCfg
    /\ store = <<>>
    /\ now = 0
    /\ faults = 0
    /\ ctx = [r \in DOMAIN SharedCfg.runs |->
                [status |-> "new", RunID |-> 0, ZombieTimeout |-> 0,
                 stepCounters |-> <<>>, claimMu |-> 0, phase |-> 1, gerr |-> "", gtask |-> 0]]
    /\ task = [r \in DOMAIN SharedCfg.runs |->
                 [t \in 1 .. WidthOf(SharedCfg.runs[r]) |-> IdleTask("off")]]
    /\ storeMu = 0
    /\ call = [i \in 1 .. SharedCfg.callers |-> IdleCall]

NextShared ==
    StepActions \/ DoStoreCall \/ DoStoreLock \/ DoStoreRunSQLite \/ DoStoreUnlock

\* Fair scheduling: every fn terminates, every sqlite3 invocation returns
\* and its caller unlocks, and the tasks are not passed over for ever: a
\* runnable task runs, and a task waiting at a mutex that is free again and
\* again gets it (sync.Mutex hands a starving waiter the lock).
FairShared ==
    /\ SF_vars(StepActions)
    /\ WF_vars(DoStoreRunSQLite)
    /\ WF_vars(DoStoreUnlock)

SpecShared == InitShared /\ [][NextShared]_vars /\ FairShared

\* task t of run r is inside a Step call
InCall(r, t) == task[r][t].pc \in {"claim", "upsert", "exec", "commit"}

\* Who waits for whom.  A task is <<r, t>>, another user of the Store <<0, c>>.
\* A task at claimMu.Lock waits for the task that holds claimMu; a task or a
\* user at s.mu.Lock waits for the holder of the store mutex.
WaitsFor(p) ==
    IF p[1] = 0
    THEN IF call[p[2]].pc = "lock" /\ storeMu # 0 THEN {<<0, storeMu>>} ELSE {}
    ELSE LET r  == p[1]
             tk == task[r][p[2]]
         IN  IF ctx[r].status # "active" THEN {}
             ELSE IF tk.pc = "claim" /\ ctx[r].claimMu # 0 THEN {<<r, ctx[r].claimMu>>}
             ELSE IF tk.pc \in {"claim", "upsert", "commit"} /\ storeMu # 0
             THEN {<<0, storeMu>>}
             ELSE {}

Participants ==
    UNION {{<<r, t>> : t \in Slots(r)} : r \in Runs} \cup {<<0, c>> : c \in Callers}

\* the participants p waits for, directly or through others
RECURSIVE Reach(_, _)
Reach(ps, n) ==
    IF n = 0 THEN ps
    ELSE Reach(ps \cup UNION {WaitsFor(q) : q \in ps}, n - 1)

\* C33: under fair scheduling, with fns that terminate and back-end
\* operations that return, every Step call of the parallel tasks of the
\* workflows sharing the Store terminates; in no reachable state do
\* participants wait for one another in a cycle: the holder of the store
\* mutex waits for nobody, the holder of a claim mutex is inside its claim
\* and waits at most for the store mutex.
C33_DeadlockFree ==
    /\ <>[](\A r \in {1, 2} : Finished(r) /\ \A t \in Slots(r) : ~InCall(r, t))
    /\ [](\A p \in Participants :
             /\ p \notin Reach(WaitsFor(p), Cardinality(Participants))
             /\ \A q \in WaitsFor(p) :
                   /\ q[1] = 0 => WaitsFor(q) = {} /\ call[q[2]].pc \in {"run", "unlock"}
                   /\ q[1] # 0 =>
                         /\ task[q[1]][q[2]].pc = "upsert"
                         /\ \A w \in WaitsFor(q) : w[1] = 0)

\* C33's case: a task waits at the claim mutex for a task of its Context that
\* holds it and waits in turn at the store mutex, held by another user of
\* the Store
C33_Witness ==
    \E p \in Participants : \E q \in WaitsFor(p) :
        /\ p[1] # 0 /\ q[1] = p[1]
        /\ WaitsFor(q) = {<<0, storeMu>>}
        /\ storeMu # 0
        /\ \E r \in Runs : r # p[1] /\ \E t \in Slots(r) : InCall(r, t)
-----------------------------------------------------------------------------
(* Scenario: rows written only by Step, by Contexts with their own run ids *)

\* Two runs at once on one workflow id.  In the first, the first task calls
\* Step twice and the other tasks once, all with ids of one normal form; its
\* store operations may fail and it may die.  The second, with the zombie
\* timeout zt, calls Step once with the same id, its fn succeeding or not.
OwnRowCfg(zt) ==
    [serial |-> FALSE,
     runs   |-> << Run("w1", 0,
                       << [t \in 1 .. NumPar |->
                             IF t = 1
                             THEN <<Op(<<"S">>, {OkOut(Value(1, 1, FALSE))}),
                                    Op(<<"s">>, {OkOut(Value(1, 1, FALSE))})>>
                             ELSE <<Op(<<"S">>, {OkOut(Value(1, 1, FALSE))})>>] >>,
                       0, TRUE, TRUE),
                   Run("w1", zt,
                       << << <<Op(<<"S">>, {OkOut(Value(2, 1, FALSE)), ErrOut(<<"e">>)})>> >> >>,
                       0, FALSE, FALSE) >>]

InitOwnRow == \E zt \in {0, ZombieAge} : InitWith(OwnRowCfg(zt))

NextOwnRow == StepActions \/ FaultActions \/ CrashActions

SpecOwnRow == InitOwnRow /\ [][NextOwnRow]_vars

\* the row task t of run r is about to read in its claim is running under
\* the run id of its own Context
OwnRowRunning(r, t) ==
    LET got == GetStep(store, cfg.runs[r].wf, task[r][t].ref.StepKey)
    IN  got.found /\ got.rec.status = statusRunning /\ got.rec.run_id = ctx[r].RunID

\* C34: with distinct run ids for distinct Contexts and rows written only by
\* Step calls, no Step call finds its row running under its own Context's
\* run id: the reentrancy branch of the claim is never taken.
C34_ReentrancyUnreachable ==
    /\ \A r \in Runs : \A t \in Slots(r) :
          (ctx[r].status = "active" /\ task[r][t].pc = "claim") => ~OwnRowRunning(r, t)
    /\ \A r \in Runs : \A c \in CallsOf(r) :
          c.branch # "reentrant" /\ c.err # "already running in this execution"

\* C34's case: a Context has left a row running under its own run id (its
\* completion checkpoint failed) and makes a later call with the same step
\* id, while a call of the other Context has found a row running under a
\* run id that is not its own
C34_Witness ==
    \E r \in Runs : \E t \in Slots(r) : \E k \in RowKeys :
        /\ ctx[r].status = "active"
        /\ task[r][t].pc = "claim"
        /\ store[k].status = statusRunning
        /\ store[k].run_id = ctx[r].RunID
        /\ store[k].step_id = task[r][t].ref.StepID
        /\ \E c \in CallsOf(r) : c.key = k[2] /\ c.err = "completion checkpoint failed"
        /\ \E q \in Runs \ {r} : \E d \in CallsOf(q) : d.read = statusRunning
\* C35: in every state reached through Step calls, every row's status is
\* running, completed or failed, and no claim takes the unknown-status
\* branch; every running row has output_json and error_text NULL; and every
\* row's step_key is its step_id, '#', and its sequence padded with zeros to
\* 6 digits.
C35_RowWellFormed ==
    /\ \A k \in RowKeys :
          /\ store[k].status \in {statusRunning, statusCompleted, statusFailed}
          /\ store[k].status = statusRunning =>
                IsNull(store[k].output_json) /\ IsNull(store[k].error_text)
          /\ store[k].step_key = store[k].step_id \o <<"#">> \o Format06d(store[k].sequence)
          /\ k = <<store[k].workflow_id, store[k].step_key>>
    /\ \A r \in Runs :
          /\ \A c \in CallsOf(r) : c.branch # "reset"
          /\ \A t \in Slots(r) : task[r][t].branch # "reset"

\* C35's case: a row that had failed is running again, claimed by a later
\* call, beside a completed row of the same step id with another sequence
C35_Witness ==
    \E k \in RowKeys : \E j \in RowKeys : \E r \in Runs : \E t \in Slots(r) :
        /\ store[k].status = statusRunning
        /\ task[r][t].pc \in {"exec", "commit"}
        /\ task[r][t].ref.StepKey = k[2]
        /\ task[r][t].read = statusFailed
        /\ store[j].status = statusCompleted
        /\ store[j].step_id = store[k].step_id
        /\ store[j].sequence > store[k].sequence
-----------------------------------------------------------------------------
(* Scenario: raw step ids of every shape, normalised by Step *)

\* a lower-case letter, a capital, a digit, two kept signs, white space and
\* a character that is not kept
IdChars == {"a", "A", "7", "-", "_", " ", "#"}

\* the raw ids of up to MaxIdLen characters, the blank ones included
RawIds == UNION {[1 .. n -> IdChars] : n \in 0 .. MaxIdLen}

\* the ids of the second call: some share a normal form with ids of the first
SecondIds == {<<"a">>, <<" ", "A", "_">>, <<"7", "#", "a", "\t">>, <<"-">>}

\* One run of one task that calls Step(ctx, first, fn), then
\* Step(ctx, second, fn).
NormalCfg(first, second) ==
    [serial |-> TRUE,
     runs   |-> << Run("w1", 0,
                       << << <<Op(first, {OkOut(Value(1, 1, FALSE))}),
                               Op(second, {OkOut(Value(2, 1, FALSE))})>> >> >>,
                       0, FALSE, FALSE) >>]

InitNormal == \E first \in RawIds : \E second \in SecondIds : InitWith(NormalCfg(first, second))

SpecNormal == InitNormal /\ [][StepActions]_vars

\* the raw id of the run's call number i
RawId(i) == cfg.runs[1].phases[1][1][i].id

NonBlank(id) == Len(TrimSpace(id)) > 0

\* C36: for a non-blank id, resolveStepID returns a non-empty string over
\* {a-z, 0-9, _, -, .} that neither starts nor ends with '_': the id with
\* its white space trimmed, lowered, every other character replaced by '_'
\* and the underscores trimmed, or "step" if nothing remains; resolveStepID
\* of the result is the result; and two calls whose raw ids have one normal
\* form are counted by one counter, two with different normal forms are not.
C36_StepIdNormalisation ==
    /\ \A i \in {1, 2} :
          NonBlank(RawId(i)) =>
              LET n       == resolveStepID(RawId(i))
                  trimmed == TrimSpace(RawId(i))
                  lowered == [j \in DOMAIN trimmed |-> ToLower(trimmed[j])]
                  mapped  == [j \in DOMAIN lowered |->
                                IF lowered[j] \in KeptChars THEN lowered[j] ELSE "_"]
                  clean   == Trim(mapped, {"_"})
              IN  /\ Len(n) > 0
                  /\ \A j \in DOMAIN n : n[j] \in KeptChars
                  /\ n[1] # "_" /\ n[Len(n)] # "_"
                  /\ n = IF Len(clean) = 0 THEN <<"s", "t", "e", "p">> ELSE clean
                  /\ resolveStepID(n) = n
    /\ LET hist == task[1][1].hist
       IN  /\ \A i \in DOMAIN hist :
                 /\ hist[i].stepID = resolveStepID(RawId(i))
                 /\ hist[i].key = StepKeyOf(hist[i].stepID, hist[i].seq)
           /\ Len(hist) = 2 =>
                 /\ hist[1].seq = 1
                 /\ hist[2].seq = IF resolveStepID(RawId(1)) = resolveStepID(RawId(2))
                                   THEN 2 ELSE 1
                 /\ DOMAIN ctx[1].stepCounters = {hist[1].stepID, hist[2].stepID}

\* C36's case: two calls with different raw ids, one with a capital and a
\* character that is not kept, have one normal form and were issued the
\* sequence numbers 1 and 2 of one counter
C36_Witness ==
    /\ Len(task[1][1].hist) = 2
    /\ RawId(1) # RawId(2)
    /\ NonBlank(RawId(1))
    /\ "#" \in Range(RawId(1))
    /\ "A" \in Range(RawId(1))
    /\ RawId(1) # resolveStepID(RawId(1))
    /\ task[1][1].hist[1].stepID = task[1][1].hist[2].stepID
    /\ task[1][1].hist[1].seq = 1
    /\ task[1][1].hist[2].seq = 2
-----------------------------------------------------------------------------
(* Scenario: rows of small and of large sequence numbers, listed *)

\* the stepRef nextStepRef returns for id on a Context that has issued
\* seq - 1 sequence numbers for it
RefAt(id, seq) == nextStepRef((resolveStepID(id) :> (seq - 1)), id).ref

\* sequence numbers about the sixth digit, and beyond it
ListedSeqs == {9, 10, 999999, 1000000}

\* One user of the Store inserts rows of two workflow ids with the keys of
\* those sequence numbers, and of another step id, in any order; every
\* state's table is listed.
ListingCfg ==
    [serial |-> TRUE, runs |-> <<>>, callers |-> 1, outcomes |-> {"ok"},
     ops |-> {"UpsertRunning"}, runIDs |-> {1}, wfs |-> {"w1", "w2"},
     refs |-> {RefAt(<<"a">>, n) : n \in ListedSeqs} \cup {RefAt(<<"a", "b">>, 1)}]

InitListing == InitStoreWith(ListingCfg)

NextListing == DoStoreCall \/ DoStoreLock \/ DoStoreRunSQLite \/ DoStoreUnlock

SpecListing == InitListing /\ [][NextListing]_vars

\* C37 (as claimed): ListSteps(W) returns exactly the rows of workflow W,
\* in ascending order of step_key as text, and the rows of one step id come
\* in ascending order of sequence, for every sequence number the counter
\* issues.
C37_ListingOrder ==
    \A wf \in cfg.wfs :
        LET rows == ListSteps(store, wf)
        IN  /\ Len(rows) = Cardinality({k \in RowKeys : k[1] = wf})
            /\ \A k \in RowKeys :
                  k[1] = wf => \E i \in DOMAIN rows : rows[i] = parseStepRecord(store[k])
            /\ \A i \in DOMAIN rows : rows[i].workflow_id = wf
            /\ \A i \in DOMAIN rows : \A j \in DOMAIN rows :
                  i < j => TextLess(rows[i].step_key, rows[j].step_key)
            /\ \A i \in DOMAIN rows : \A j \in DOMAIN rows :
                  (i < j /\ rows[i].step_id = rows[j].step_id) =>
                      rows[i].sequence < rows[j].sequence
====
